---- MODULE Spec2Model ----
(***************************************************************************)
(* A model of the duplicate-detection and cluster-persistence core of the  *)
(* image_dedupe repository: the SQLite store (files, file_relations,       *)
(* clusters, cluster_members), the multi-index-hashing candidate query,    *)
(* the BK-tree, GraphBuilder and ClusterReconciler.                        *)
(*                                                                         *)
(* Each component has its own next-state relation and specification over   *)
(* the shared variables; a specification leaves the variables of the other *)
(* components at their initial values.                                     *)
(***************************************************************************)
EXTENDS Integers, Sequences, FiniteSets, TLC

VARIABLES
    files,            \* table files: set of rows [id, path, phash, chunks]
    next_id,          \* AUTOINCREMENT counter of files.id
    file_relations,   \* table file_relations: <<id1, id2>> -> [relation_type, distance]
    graph,            \* last return value of build_graph_and_find_components
    candidates,       \* last return value of get_phash_candidates
    tree,             \* BKTree: the nodes, tree[1] the root (<<>>: root is None)
    tree_size,        \* BKTree._size
    added,            \* history: the (item, hash_val) pairs given to BKTree.add
    query_result,     \* last return value of BKTree.query, with its arguments
    clusters,         \* table clusters: the set of cluster ids
    next_cluster_id,  \* AUTOINCREMENT counter of clusters.id
    cluster_members,  \* table cluster_members: set of <<cluster_id, file_path>>
    rc,               \* the running ClusterReconciler.reconcile call (its locals)
    rel_write,        \* the running FileRepository.add_relations_batch call
    engine,           \* last return value of an engine's find_duplicates, with its arguments
    bk_cache,         \* the file bktree_cache.pkl
    index_run,        \* last PHashEngine.index_files call, with its arguments
    explicit_deletes, \* history: the cluster ids given to delete_cluster
    last_modified,    \* column files.last_modified: path -> stored mtime
    vector_status,    \* table vector_index_status: set of <<path, engine>>
    dist_call,        \* a GPUBatchSearch.compute_distances call: arguments, result
    uf,               \* the union-find of a find_duplicates call: parent, and the unions made
    history           \* CommandHistory: undo_stack, redo_stack, and the last call

storeVars == <<files, next_id, file_relations>>
bkVars == <<tree, tree_size, added, query_result>>
clusterVars == <<clusters, next_cluster_id, cluster_members, rc>>
miscVars == <<dist_call, uf, history>>
extVars == <<last_modified, vector_status, miscVars>>
auxVars == <<engine, bk_cache, index_run, explicit_deletes, extVars>>
vars == <<files, next_id, file_relations, graph, candidates, tree, tree_size, added,
          query_result, clusters, next_cluster_id, cluster_members, rc, rel_write,
          engine, bk_cache, index_run, explicit_deletes, last_modified,
          vector_status, dist_call, uf, history>>

(***************************************************************************)
(* Values                                                                  *)
(***************************************************************************)

\* SQL NULL / Python None for an integer column or a distance.
NULL == -1

\* Python None or "" for a phash (both are falsy wherever the code tests it).
NoPhash == <<>>

\* A 64-bit fingerprint is the 16 hex digits of its string form.
Z4 == <<0, 0, 0, 0>>
B4 == <<0, 0, 0, 1>>
F4 == <<0, 0, 0, 15>>
H0 == Z4 \o Z4 \o Z4 \o Z4    \* 0000000000000000
H1 == Z4 \o Z4 \o Z4 \o B4    \* 0000000000000001
H3 == B4 \o B4 \o B4 \o Z4    \* 0001000100010000
H4 == B4 \o B4 \o B4 \o B4    \* 0001000100010001
HF == F4 \o F4 \o F4 \o F4    \* 000f000f000f000f
H2 == Z4 \o Z4 \o Z4 \o <<0, 0, 0, 2>>     \* 0000000000000002
HA == Z4 \o Z4 \o Z4 \o <<0, 0, 0, 10>>    \* 000000000000000a

\* File paths, with the characters os.path.normpath and str.lower work on.
Paths == {"/a/x", "/a/y", "/A/z", "/ab/w"}

Chars(s) ==
    CASE s = "/a/x"  -> <<"/", "a", "/", "x">>
      [] s = "/a/y"  -> <<"/", "a", "/", "y">>
      [] s = "/A/z"  -> <<"/", "A", "/", "z">>
      [] s = "/ab/w" -> <<"/", "a", "b", "/", "w">>
      [] s = "/a"    -> <<"/", "a">>
      [] s = "/A/"   -> <<"/", "A", "/">>
      [] s = "/a/."  -> <<"/", "a", "/", ".">>
      [] s = "/ab"   -> <<"/", "a", "b">>
      [] s = "/a/x/" -> <<"/", "a", "/", "x", "/">>

\* models.py RelationType: the ten relation kinds.
RelationType ==
    {"new_match", "duplicate", "near_duplicate", "crop_duplicate", "similar",
     "similar_style", "same_person", "same_image_set", "other", "not_duplicate"}

RECURSIVE SeqOfSet(_)
SeqOfSet(S) ==
    IF S = {} THEN <<>>
    ELSE LET x == CHOOSE y \in S : TRUE IN <<x>> \o SeqOfSet(S \ {x})

RECURSIVE SumSeq(_)
SumSeq(s) == IF s = <<>> THEN 0 ELSE Head(s) + SumSeq(Tail(s))

Min(S) == CHOOSE x \in S : \A y \in S : x <= y

(***************************************************************************)
(* The files table                                                         *)
(***************************************************************************)

\* database.py _extract_phash_chunks: int(phash, 16) cut into four 16-bit
\* values, or four NULLs when the string is absent or not 16 characters.
ChunkValue(h, k) ==
    h[4 * k - 3] * 4096 + h[4 * k - 2] * 256 + h[4 * k - 1] * 16 + h[4 * k]

extract_phash_chunks(phash_str) ==
    IF phash_str = NoPhash \/ Len(phash_str) # 16
    THEN <<NULL, NULL, NULL, NULL>>
    ELSE <<ChunkValue(phash_str, 1), ChunkValue(phash_str, 2),
           ChunkValue(phash_str, 3), ChunkValue(phash_str, 4)>>

FileIds == {f.id : f \in files}
FilePaths == {f.path : f \in files}
FileByPath(p) == CHOOSE f \in files : f.path = p
FileById(i) == CHOOSE f \in files : f.id = i

\* database.py upsert_file: INSERT ... ON CONFLICT(path) DO UPDATE, the four
\* chunk columns written together with phash.
DbUpsertRow(table, nid, path, phash) ==
    IF \E f \in table : f.path = path
    THEN {IF f.path = path
          THEN [f EXCEPT !.phash = phash, !.chunks = extract_phash_chunks(phash)]
          ELSE f : f \in table}
    ELSE table \cup {[id |-> nid, path |-> path, phash |-> phash,
                      chunks |-> extract_phash_chunks(phash)]}

(***************************************************************************)
(* The file_relations table                                                *)
(***************************************************************************)

Sorted2(a, b) == IF a <= b THEN <<a, b>> ELSE <<b, a>>

\* The two foreign keys alone, the CHECK left out of the table.
RelationRowOkNoCheck(key) ==
    key[1] \in FileIds /\ key[2] \in FileIds

\* The row constraints of file_relations: CHECK (id1 < id2) and the two
\* foreign keys into files (PRAGMA foreign_keys = ON).
RelationRowOk(key) ==
    key[1] < key[2] /\ key[1] \in FileIds /\ key[2] \in FileIds

\* INSERT ... ON CONFLICT(id1, id2) DO UPDATE SET relation_type, distance.
UpsertRelation(rels, key, kind, dist) ==
    [k \in DOMAIN rels \cup {key} |->
        IF k = key THEN [relation_type |-> kind, distance |-> dist] ELSE rels[k]]

\* database.py add_ignored_pair_id: the user's annotation of a pair; a
\* sqlite3.Error (a failed CHECK or foreign key) is logged and nothing is written.
add_ignored_pair_id(rels, id1, id2, reason, distance) ==
    LET key == Sorted2(id1, id2)
    IN IF RelationRowOk(key) THEN UpsertRelation(rels, key, reason, distance) ELSE rels

\* file_repository.py remove_relation: DELETE of the row of the sorted pair.
remove_relation(rels, id1, id2) ==
    [k \in DOMAIN rels \ {Sorted2(id1, id2)} |-> rels[k]]

\* add_relations_batch: (s1, s2, rtype, distance) per FileRelation, ids sorted.
BatchData(relations) ==
    [i \in 1..Len(relations) |->
        [key |-> Sorted2(relations[i].id1, relations[i].id2),
         relation_type |-> relations[i].relation_type,
         distance |-> relations[i].distance]]

\* add_relations_batch: SELECT id FROM files WHERE id IN (all ids of the batch).
existing_ids(data, table) ==
    {i \in UNION {{data[n].key[1], data[n].key[2]} : n \in 1..Len(data)} :
        \E f \in table : f.id = i}

\* add_relations_batch: the rows whose two ids exist.
valid_data(data, ids) ==
    SelectSeq(data, LAMBDA row : row.key[1] \in ids /\ row.key[2] \in ids)

\* ON CONFLICT(id1, id2) DO UPDATE for every row, whatever the flag.
ConflictRowAlwaysUpdate(rels, row, overwrite) ==
    UpsertRelation(rels, row.key, row.relation_type, row.distance)

\* One INSERT of the batch on an existing key: ON CONFLICT(id1, id2) DO UPDATE
\* when overwrite, DO NOTHING otherwise.
ConflictRow(rels, row, overwrite) ==
    IF overwrite
    THEN UpsertRelation(rels, row.key, row.relation_type, row.distance)
    ELSE rels

\* executemany over valid_data: the rows are inserted in order; a row that
\* breaks CHECK (id1 < id2) or a foreign key raises sqlite3.Error, which ends
\* the statement with the earlier rows left in the connection's transaction.
RECURSIVE executemany(_, _, _)
executemany(rels, rows, overwrite) ==
    IF rows = <<>> THEN [rels |-> rels, error |-> FALSE]
    ELSE LET row == Head(rows)
         IN IF ~RelationRowOk(row.key) THEN [rels |-> rels, error |-> TRUE]
            ELSE IF row.key \in DOMAIN rels
                 THEN executemany(ConflictRow(rels, row, overwrite), Tail(rows), overwrite)
                 ELSE executemany(UpsertRelation(rels, row.key, row.relation_type,
                                                 row.distance),
                                  Tail(rows), overwrite)

\* add_relations_batch: the statistics returned.
BatchStats(n_valid, skipped, error) ==
    IF n_valid = 0 THEN [added |-> 0, skipped |-> skipped, errors |-> 0]
    ELSE IF error THEN [added |-> 0, skipped |-> skipped, errors |-> 1]
    ELSE [added |-> n_valid, skipped |-> skipped, errors |-> 0]

\* ON DELETE CASCADE of the two foreign keys of file_relations: the rows
\* left after the files of the given ids are deleted.
CascadeDelete(rels, ids) ==
    [k \in {x \in DOMAIN rels : x[1] \notin ids /\ x[2] \notin ids} |-> rels[k]]

\* The DELETE with the relations of the file left in place.
mark_deleted_no_cascade(table, rels, path) ==
    [files |-> {f \in table : f.path # path}, rels |-> rels]

\* database.py mark_deleted: DELETE FROM files WHERE path = ?.
mark_deleted(table, rels, path) ==
    [files |-> {f \in table : f.path # path},
     rels |-> CascadeDelete(rels, {f.id : f \in {g \in table : g.path = path}})]

\* database.py move_file: DELETE of the row of new_path, then UPDATE of the
\* path of the row of old_path.
move_file(table, rels, old_path, new_path) ==
    LET d == mark_deleted(table, rels, new_path)
    IN [files |-> {IF f.path = old_path THEN [f EXCEPT !.path = new_path] ELSE f :
                     f \in d.files},
        rels |-> d.rels]

(***************************************************************************)
(* GraphBuilder                                                            *)
(***************************************************************************)

\* dict.get(key, default) on the criteria dict.
CriteriaGet(criteria, key, default) ==
    IF key \in DOMAIN criteria THEN criteria[key] ELSE default

\* file_repository.py get_all_relations: a stored kind that is no RelationType
\* is read as NEW_MATCH.
RelationKindRead(r_type) == IF r_type \in RelationType THEN r_type ELSE "new_match"

\* cluster_services.py: id_map.get(rel.id1), None for an id not among the files given.
id_map(fs) == [i \in {f.id : f \in fs} |-> (CHOOSE f \in fs : f.id = i).path]

\* Step 1: all pairs of files with the same non-empty phash.
HashEdges(fs, criteria) ==
    IF CriteriaGet(criteria, "exact_hash", TRUE)
    THEN {{f.path, g.path} : <<f, g>> \in
            {pr \in fs \X fs : pr[1].path # pr[2].path
                               /\ pr[1].phash # NoPhash
                               /\ pr[1].phash = pr[2].phash}}
    ELSE {}

\* Step 2: relations of an enabled positive kind whose two ids are among the files.
DbEdges(fs, rels, criteria) ==
    {{id_map(fs)[k[1]], id_map(fs)[k[2]]} : k \in
        {k \in DOMAIN rels :
            /\ RelationKindRead(rels[k].relation_type) # "not_duplicate"
            /\ CriteriaGet(criteria, RelationKindRead(rels[k].relation_type), FALSE)
            /\ k[1] \in DOMAIN id_map(fs) /\ k[2] \in DOMAIN id_map(fs)}}

\* No negative edge is ever collected.
negative_edges_none(fs, rels, criteria) == {}

\* Step 2: not_duplicate relations, unless the criteria re-admit them.
negative_edges(fs, rels, criteria) ==
    {{id_map(fs)[k[1]], id_map(fs)[k[2]]} : k \in
        {k \in DOMAIN rels :
            /\ RelationKindRead(rels[k].relation_type) = "not_duplicate"
            /\ ~CriteriaGet(criteria, "not_duplicate", FALSE)
            /\ k[1] \in DOMAIN id_map(fs) /\ k[2] \in DOMAIN id_map(fs)}}

\* Step 4: the adjacency after the negative edges are removed.  adj is a
\* defaultdict: its keys are the nodes an edge was added to or looked up for.
FinalEdges(fs, rels, criteria) ==
    (HashEdges(fs, criteria) \cup DbEdges(fs, rels, criteria))
        \ negative_edges(fs, rels, criteria)

AdjKeys(fs, rels, criteria) ==
    UNION (HashEdges(fs, criteria) \cup DbEdges(fs, rels, criteria)
           \cup negative_edges(fs, rels, criteria))

Adj(edges, node) == {n \in UNION edges : {node, n} \in edges /\ n # node}

\* A traversal that stops at the neighbours of the start node.
bfs_one_hop(edges, queue, visited, component) ==
    [component |-> {Head(queue)} \cup (Adj(edges, Head(queue)) \ visited),
     visited |-> visited \cup Adj(edges, Head(queue))]

\* Step 5: the breadth-first traversal from one start node.
RECURSIVE bfs(_, _, _, _)
bfs(edges, queue, visited, component) ==
    IF queue = <<>> THEN [component |-> component, visited |-> visited]
    ELSE LET node == Head(queue)
             unseen == Adj(edges, node) \ visited
         IN bfs(edges, Tail(queue) \o SeqOfSet(unseen), visited \cup unseen,
                component \cup {node})

RECURSIVE find_components(_, _, _, _, _)
find_components(all_paths, edges, keys, visited, components) ==
    IF all_paths = <<>> THEN components
    ELSE LET start_node == Head(all_paths)
         IN IF start_node \in visited \/ start_node \notin keys
            THEN find_components(Tail(all_paths), edges, keys, visited, components)
            ELSE LET r == bfs(edges, <<start_node>>, visited \cup {start_node}, {})
                 IN find_components(Tail(all_paths), edges, keys, r.visited,
                        IF Cardinality(r.component) > 1
                        THEN Append(components, r.component)
                        ELSE components)

\* list(file_map.keys()): the paths in the order of the rows given (by id).
RECURSIVE PathsById(_)
PathsById(fs) ==
    IF fs = {} THEN <<>>
    ELSE LET f == CHOOSE g \in fs : \A h \in fs : g.id <= h.id
         IN <<f.path>> \o PathsById(fs \ {f})

build_graph_and_find_components(fs, rels, criteria) ==
    find_components(PathsById(fs), FinalEdges(fs, rels, criteria),
                    AdjKeys(fs, rels, criteria), {}, <<>>)

(***************************************************************************)
(* Hamming distance                                                        *)
(***************************************************************************)

Bit(n, i) == (n \div (2 ^ i)) % 2

\* The set bits of the XOR of two hex digits.
XorBits(a, b) == Cardinality({i \in 0..3 : Bit(a, i) # Bit(b, i)})

\* phash.py hamming: bin(int(h1, 16) ^ int(h2, 16)).count('1'), on two
\* 16-digit hex strings.
hamming(h1, h2) == SumSeq([i \in 1..16 |-> XorBits(h1[i], h2[i])])

(***************************************************************************)
(* CandidateFilter: database.py get_phash_candidates                       *)
(***************************************************************************)

\* SQL "=": never true when a side is NULL.
SqlEq(a, b) == a # NULL /\ b # NULL /\ a = b

\* The self-join with the fourth chunk column left out of the OR.
get_phash_candidates_c1_c3(table) ==
    {<<f1.id, f2.id, f1.phash, f2.phash>> : <<f1, f2>> \in
        {pr \in table \X table :
            /\ pr[1].id < pr[2].id
            /\ \E c \in 1..3 : SqlEq(pr[1].chunks[c], pr[2].chunks[c])}}

\* The self-join of files on an equal chunk column, f1.id < f2.id.
get_phash_candidates(table) ==
    {<<f1.id, f2.id, f1.phash, f2.phash>> : <<f1, f2>> \in
        {pr \in table \X table :
            /\ pr[1].id < pr[2].id
            /\ \E c \in 1..4 : SqlEq(pr[1].chunks[c], pr[2].chunks[c])}}

(***************************************************************************)
(* FingerprintIndex: bktree.py BKTree                                      *)
(***************************************************************************)

\* BKTree(hamming): the metric the engine builds the tree with.  The distances
\* of the fingerprints in use are tabulated once from hamming.
AllFingerprints == {H0, H1, H2, H3, H4, HA, HF}
HammingTable == [pr \in AllFingerprints \X AllFingerprints |-> hamming(pr[1], pr[2])]
distance_func(h1, h2) == HammingTable[<<h1, h2>>]

BKNode(item, hash_val) == [item |-> item, hash_val |-> hash_val, children |-> <<>>]

\* node.children[dist], or 0 when dist is no key of node.children.  children
\* is the dict in insertion order: a sequence of <<distance, node index>>.
ChildAt(children, dist) ==
    IF \E c \in 1..Len(children) : children[c][1] = dist
    THEN children[CHOOSE c \in 1..Len(children) : children[c][1] = dist][2]
    ELSE 0

\* BKTree.add, the walk: the node that receives the new child.
RECURSIVE add_walk(_, _, _)
add_walk(nodes, node, hash_val) ==
    LET dist == distance_func(nodes[node].hash_val, hash_val)
        child == ChildAt(nodes[node].children, dist)
    IN IF child # 0 THEN add_walk(nodes, child, hash_val) ELSE node

BKTree_add(nodes, item, hash_val) ==
    IF nodes = <<>> THEN <<BKNode(item, hash_val)>>
    ELSE LET node == add_walk(nodes, 1, hash_val)
             dist == distance_func(nodes[node].hash_val, hash_val)
         IN [Append(nodes, BKNode(item, hash_val)) EXCEPT
                ![node].children = Append(@, <<dist, Len(nodes) + 1>>)]

\* A pruning window that is one too narrow at its lower end.
ChildrenInRangeNarrow(children, start, end) ==
    LET sel == SelectSeq(children, LAMBDA c : start < c[1] /\ c[1] <= end)
    IN [i \in 1..Len(sel) |-> sel[i][2]]

\* The children whose edge label lies in [start, end], in dict order.
ChildrenInRange(children, start, end) ==
    LET sel == SelectSeq(children, LAMBDA c : start <= c[1] /\ c[1] <= end)
    IN [i \in 1..Len(sel) |-> sel[i][2]]

\* BKTree.query, the loop over the stack.
RECURSIVE query_loop(_, _, _, _, _)
query_loop(nodes, stack, hash_val, threshold, results) ==
    IF stack = <<>> THEN results
    ELSE LET node == stack[Len(stack)]
             dist == distance_func(nodes[node].hash_val, hash_val)
         IN query_loop(nodes,
                SubSeq(stack, 1, Len(stack) - 1)
                    \o ChildrenInRange(nodes[node].children, dist - threshold,
                                       dist + threshold),
                hash_val, threshold,
                IF dist <= threshold
                THEN Append(results, <<nodes[node].item, dist>>)
                ELSE results)

BKTree_query(nodes, hash_val, threshold) ==
    IF nodes = <<>> THEN <<>>
    ELSE query_loop(nodes, <<1>>, hash_val, threshold, <<>>)

(***************************************************************************)
(* The engines' find_duplicates                                            *)
(***************************************************************************)

\* int(s) of a 16-character hash string: NULL for the ValueError raised when
\* a character is no decimal digit, the decimal value otherwise (values of
\* ten digits and more are all above every file id and stand as 10^9).
IntOfHash(h) ==
    IF \E i \in 1..16 : h[i] > 9 THEN NULL
    ELSE IF \E i \in 1..7 : h[i] # 0 THEN 1000000000
    ELSE SumSeq([i \in 1..9 |-> h[7 + i] * (10 ^ (9 - i))])

\* database.py is_ignored, given two file ids: a row of the sorted pair whose
\* relation_type is not 'new_match'.
is_ignored(rels, id1, id2) ==
    LET key == Sorted2(id1, id2)
    IN key \in DOMAIN rels /\ rels[key].relation_type # "new_match"

\* database.py is_ignored, given two hash strings: int() of each, False on
\* ValueError.
is_ignored_str(rels, h1, h2) ==
    LET a == IntOfHash(h1)
        b == IntOfHash(h2)
    IN IF a = NULL \/ b = NULL THEN FALSE ELSE is_ignored(rels, a, b)

\* add_relations_batch as one call: the table after it.
add_relations_batch(rels, table, relations, overwrite) ==
    LET data == BatchData(relations)
        valid == valid_data(data, existing_ids(data, table))
    IN IF valid = <<>> THEN rels ELSE executemany(rels, valid, overwrite).rels

\* The classes of the union-find after the given unions: what is reachable
\* from a node over the united pairs.
RECURSIVE Reach(_, _)
Reach(S, pairs) ==
    LET T == S \cup {pr[2] : pr \in {q \in pairs : q[1] \in S}}
               \cup {pr[1] : pr \in {q \in pairs : q[2] \in S}}
    IN IF T = S THEN S ELSE Reach(T, pairs)

union_find(nodes, pairs) == {Reach({n}, pairs) : n \in nodes}

NewMatch(id1, id2, dist) ==
    [id1 |-> id1, id2 |-> id2, relation_type |-> "new_match", distance |-> dist]

\* phash.py _find_duplicates_gpu: MIH candidates, the distance and is_ignored
\* filter, the persisting of the matches and the grouping of all files.
find_duplicates_gpu(table, rels, threshold, include_ignored) ==
    LET cands == get_phash_candidates(table)
        found == {c \in cands :
                    /\ hamming(c[3], c[4]) <= threshold
                    /\ (include_ignored \/ ~is_ignored(rels, c[1], c[2]))}
        found_matches ==
            SeqOfSet({NewMatch(Sorted2(c[1], c[2])[1], Sorted2(c[1], c[2])[2],
                               hamming(c[3], c[4])) : c \in found})
        pairs == {<<c[1], c[2]>> : c \in found}
        groups == union_find({f.id : f \in table}, pairs)
    IN IF cands = {}
       THEN [rels |-> rels, joined |-> {}, groups |-> {}, error |-> FALSE]
       ELSE [rels |-> IF found = {} THEN rels
                      ELSE add_relations_batch(rels, table, found_matches, FALSE),
             joined |-> pairs,
             groups |-> {g \in groups : Cardinality(g) > 1},
             error |-> FALSE]

\* phash.py _find_duplicates_cpu: the keys of buckets in insertion order, the
\* files read in id order.
RECURSIVE hash_groups(_)
hash_groups(fs) ==
    IF fs = {} THEN <<>>
    ELSE LET first == CHOOSE f \in fs : \A g \in fs : f.id <= g.id
         IN <<first.phash>> \o hash_groups({g \in fs : g.phash # first.phash})

\* tree.add(h, h) for every hash group.
RECURSIVE build_tree(_, _)
build_tree(nodes, hs) ==
    IF hs = <<>> THEN nodes
    ELSE build_tree(BKTree_add(nodes, Head(hs), Head(hs)), Tail(hs))

\* The tree the run uses: the cached one when tree.load succeeds and
\* tree.size() == len(hash_groups), a new one (then saved) otherwise.
cache_valid(cache, hs) == cache.saved /\ cache.size = Len(hs)

tree_of_run(cache, hs) ==
    IF cache_valid(cache, hs) THEN cache.nodes ELSE build_tree(<<>>, hs)

cache_after_run(cache, hs) ==
    IF cache_valid(cache, hs) THEN cache
    ELSE [saved |-> TRUE, nodes |-> build_tree(<<>>, hs), size |-> Len(hs)]

\* phash.py _find_duplicates_cpu with files=None and root_paths=None: exact
\* buckets, the BK-tree queries, union of the hashes, the persisting of the
\* pairs found and the groups.  error: the KeyError of find(match_h) on a
\* hash that is no key of parent, which ends the call before anything is
\* persisted or returned.
find_duplicates_cpu(table, rels, cache, threshold, include_ignored) ==
    LET fs == {f \in table : f.phash # NoPhash}
        hs == hash_groups(fs)
        hset == {hs[i] : i \in 1..Len(hs)}
        nodes == tree_of_run(cache, hs)
        matches(h) == LET r == BKTree_query(nodes, h, threshold)
                      IN {r[i] : i \in 1..Len(r)}
        hits == {<<h, m[1], m[2]>> : <<h, m>> \in
                    {pr \in hset \X UNION {matches(h) : h \in hset} :
                        pr[2] \in matches(pr[1]) /\ pr[2][2] > 0}}
        unions == {<<t[1], t[2]>> : t \in
                    {u \in hits : include_ignored \/ ~is_ignored_str(rels, u[1], u[2])}}
        error == \E u \in unions : u[2] \notin hset
        id_relations ==
            {NewMatch(Sorted2(f1.id, f2.id)[1], Sorted2(f1.id, f2.id)[2], t[3]) :
                <<t, f1, f2>> \in
                    {x \in hits \X fs \X fs :
                        /\ x[2].phash = x[1][1] /\ x[3].phash = x[1][2]
                        /\ x[2].id # x[3].id}}
        classes == union_find(hset, unions)
        groups == {{f.id : f \in {g \in fs : g.phash \in c}} : c \in classes}
        final_groups == {g \in groups : Cardinality(g) > 1}
        one_hash(g) == {f.phash : f \in {x \in fs : x.id \in g}}
        filtered == IF include_ignored THEN final_groups
                    ELSE {g \in final_groups :
                            ~(/\ Cardinality(one_hash(g)) = 1
                              /\ \E h \in one_hash(g) : is_ignored_str(rels, h, h))}
    IN IF error
       THEN [rels |-> rels, joined |-> {}, groups |-> {}, error |-> TRUE]
       ELSE [rels |-> IF id_relations = {} THEN rels
                      ELSE add_relations_batch(rels, table, SeqOfSet(id_relations), FALSE),
             joined |-> {<<f1.id, f2.id>> : <<f1, f2>> \in
                            {pr \in fs \X fs :
                                /\ pr[1].id < pr[2].id
                                /\ \/ pr[1].phash = pr[2].phash
                                   \/ <<pr[1].phash, pr[2].phash>> \in unions
                                   \/ <<pr[2].phash, pr[1].phash>> \in unions}},
             groups |-> filtered,
             error |-> FALSE]

\* base.py find_duplicates with files=None and root_paths=None.  near: the
\* (path, match_path) results of vector_db.query whose distance is within the
\* threshold; dist: that distance as stored.
find_duplicates_embedding(table, rels, near, dist, include_ignored) ==
    LET paths == {f.path : f \in table}
        id(p) == (CHOOSE f \in table : f.path = p).id
        found == {pr \in near : pr[1] \in paths /\ pr[2] \in paths /\ pr[1] # pr[2]}
        found_pairs == {NewMatch(id(pr[1]), id(pr[2]), dist) : pr \in found}
        unions == {pr \in found :
                     include_ignored \/ ~is_ignored(rels, id(pr[1]), id(pr[2]))}
        classes == union_find(paths, unions)
        groups == {{id(p) : p \in c} : c \in classes}
    IN [rels |-> IF found_pairs = {} THEN rels
                 ELSE add_relations_batch(rels, table, SeqOfSet(found_pairs), FALSE),
        joined |-> {Sorted2(id(pr[1]), id(pr[2])) : pr \in unions},
        groups |-> {g \in groups : Cardinality(g) > 1},
        error |-> FALSE]

(***************************************************************************)
(* Paths: os.path.normpath, str.lower, str.startswith                      *)
(***************************************************************************)

\* str.split('/') on a character sequence.
RECURSIVE SplitSlash(_, _, _)
SplitSlash(cs, cur, acc) ==
    IF cs = <<>> THEN Append(acc, cur)
    ELSE IF Head(cs) = "/" THEN SplitSlash(Tail(cs), <<>>, Append(acc, cur))
    ELSE SplitSlash(Tail(cs), Append(cur, Head(cs)), acc)

\* '/'.join(comps)
RECURSIVE JoinSlash(_)
JoinSlash(comps) ==
    IF comps = <<>> THEN <<>>
    ELSE IF Len(comps) = 1 THEN comps[1]
    ELSE comps[1] \o <<"/">> \o JoinSlash(Tail(comps))

\* os.path.normpath (POSIX) on paths without "..": empty and "." components
\* are dropped, a leading slash is kept, an empty result is ".".
normpath(cs) ==
    LET comps == SelectSeq(SplitSlash(cs, <<>>, <<>>),
                           LAMBDA c : c # <<>> /\ c # <<".">>)
        joined == JoinSlash(comps)
    IN IF cs # <<>> /\ cs[1] = "/" THEN <<"/">> \o joined
       ELSE IF joined = <<>> THEN <<".">> ELSE joined

\* str.lower
lower(cs) == [i \in 1..Len(cs) |-> IF cs[i] = "A" THEN "a" ELSE cs[i]]

startswith(cs, prefix) ==
    Len(prefix) <= Len(cs) /\ SubSeq(cs, 1, Len(prefix)) = prefix

(***************************************************************************)
(* ClusterReconciler                                                       *)
(***************************************************************************)

\* database.py get_all_cluster_members: {row['file_path']: row['cluster_id']}
\* over SELECT ... FROM cluster_members.  A path with rows under several
\* clusters keeps the cluster of the row read last; the SELECT has no ORDER BY,
\* so any of its clusters can be the one kept.
get_all_cluster_members(members) ==
    {f \in [{m[2] : m \in members} -> {m[1] : m \in members}] :
        \A q \in DOMAIN f : <<f[q], q>> \in members}

\* database.py add_cluster_members: INSERT OR IGNORE of (cluster_id, path).
add_cluster_members(members, cluster_id, paths) ==
    members \cup {<<cluster_id, q>> : q \in paths}

\* reconcile step 2: the cluster ids the component touches.
touched_ids(comp_paths, db_members) ==
    {db_members[q] : q \in comp_paths \cap DOMAIN db_members}

\* The highest touched id taken for the lowest.
primary_id_highest(comp_paths, db_members) ==
    CHOOSE c \in touched_ids(comp_paths, db_members) :
        \A d \in touched_ids(comp_paths, db_members) : d <= c

\* sorted(list(touched_ids))[0]
primary_id(comp_paths, db_members) == Min(touched_ids(comp_paths, db_members))

\* Step 2 persisting one of the new members only.
new_files_for_db_one(comp_paths, db_members) ==
    LET new == {q \in comp_paths : q \notin DOMAIN db_members}
    IN IF new = {} THEN {} ELSE {CHOOSE q \in new : TRUE}

\* reconcile step 2: the members of the component to persist under the primary.
new_files_for_db(comp_paths, db_members) ==
    {q \in comp_paths : q \notin DOMAIN db_members}

\* reconcile step 2: final_clusters after one component.
MergeComponent(final_clusters, comp_paths, db_members) ==
    LET pid == primary_id(comp_paths, db_members)
        moved == {q \in comp_paths :
                     q \notin DOMAIN db_members \/ db_members[q] # pid}
    IN IF pid \in DOMAIN final_clusters
       THEN [final_clusters EXCEPT ![pid] = (@ \cup moved) \cup comp_paths]
       ELSE final_clusters

\* Step 3 without the test against processed_paths.
HandleOrphansProcessedToo(final_clusters, db_members, processed_paths, global_file_map) ==
    [c \in DOMAIN final_clusters |->
        final_clusters[c] \cup
            {q \in DOMAIN db_members : db_members[q] = c /\ q \in global_file_map}]

\* reconcile step 3: the persisted members no component covered stay in their
\* cluster when they are keys of global_file_map.
HandleOrphans(final_clusters, db_members, processed_paths, global_file_map) ==
    [c \in DOMAIN final_clusters |->
        final_clusters[c] \cup
            {q \in DOMAIN db_members :
                /\ db_members[q] = c
                /\ q \notin processed_paths
                /\ q \in global_file_map}]

\* reconcile step 4, "Existing": one record per persisted cluster, by id, that
\* has files and at least one of them in global_file_map.
RECURSIVE ExistingRecords(_, _, _)
ExistingRecords(ids, final_clusters, global_file_map) ==
    IF ids = {} THEN <<>>
    ELSE LET cid == Min(ids)
             file_objs == final_clusters[cid] \cap global_file_map
             rest == ExistingRecords(ids \ {cid}, final_clusters, global_file_map)
         IN IF final_clusters[cid] = {} \/ file_objs = {}
            THEN rest
            ELSE <<[id |-> cid, files |-> file_objs]>> \o rest

\* reconcile step 4, "New": one record with the next negative id per new
\* component with at least two files in global_file_map.
RECURSIVE NewRecords(_, _, _)
NewRecords(new_clusters_list, global_file_map, fake_id) ==
    IF new_clusters_list = <<>> THEN <<>>
    ELSE LET file_objs == Head(new_clusters_list) \cap global_file_map
         IN IF Cardinality(file_objs) < 2
            THEN NewRecords(Tail(new_clusters_list), global_file_map, fake_id)
            ELSE <<[id |-> fake_id, files |-> file_objs]>>
                 \o NewRecords(Tail(new_clusters_list), global_file_map, fake_id - 1)

\* _filter_roots, the test of one file path against the roots.
is_within_roots(path, roots) ==
    LET q == lower(normpath(Chars(path)))
    IN \E i \in 1..Len(roots) :
          LET r_norm == lower(normpath(Chars(roots[i])))
          IN q = r_norm \/ startswith(q, r_norm \o <<"/">>)

\* ClusterReconciler._filter_roots
filter_roots(records, roots) ==
    IF roots = <<>> THEN <<>>
    ELSE SelectSeq(records,
                   LAMBDA clust : \A f \in clust.files : is_within_roots(f, roots))

\* reconcile step 5: "if allowed_roots:" is false for None and for an empty list.
RootFiltering(enriched_results, allowed_roots) ==
    IF allowed_roots.given /\ allowed_roots.roots # <<>>
    THEN filter_roots(enriched_results, allowed_roots.roots)
    ELSE enriched_results

(***************************************************************************)
(* Maintenance sweeps and cluster deletion                                 *)
(***************************************************************************)

\* database.py cleanup_missing_files: the rows of the paths that
\* os.path.exists denies are deleted from files (with the cascade).
cleanup_missing_files(table, rels, missing) ==
    [files |-> {f \in table : f.path \notin missing},
     rels |-> CascadeDelete(rels, {f.id : f \in {g \in table : g.path \in missing}})]

\* The sweep without its step 1: the status rows stay.
cleanup_orphans_keeps_status(table, rels, cls, members, status) ==
    LET paths == {f.path : f \in table}
        ids == {f.id : f \in table}
        kept == {m \in members : m[2] \in paths}
    IN [rels |-> [k \in {x \in DOMAIN rels : x[1] \in ids /\ x[2] \in ids} |-> rels[k]],
        cluster_members |-> kept,
        clusters |-> {c \in cls : \E m \in kept : m[1] = c},
        vector_status |-> status]

\* Step 4 run on the clusters that lost a member in step 2 as well.
cleanup_orphans_lost_member(table, rels, cls, members, status) ==
    LET paths == {f.path : f \in table}
        ids == {f.id : f \in table}
        kept == {m \in members : m[2] \in paths}
        gone == {c \in cls : \A m \in members : m[1] = c => m[2] \notin paths}
               \cup {m[1] : m \in members \ kept}
    IN [rels |-> [k \in {x \in DOMAIN rels : x[1] \in ids /\ x[2] \in ids} |-> rels[k]],
        cluster_members |-> {m \in kept : m[1] \notin gone},
        clusters |-> cls \ gone,
        vector_status |-> {v \in status : v[1] \in paths}]

\* database.py cleanup_orphans: the status rows and the members whose path is
\* no path of files, the relations with an id that is no id of files, and
\* then the clusters that have no member left.
cleanup_orphans(table, rels, cls, members, status) ==
    LET paths == {f.path : f \in table}
        ids == {f.id : f \in table}
        kept == {m \in members : m[2] \in paths}
    IN [rels |-> [k \in {x \in DOMAIN rels : x[1] \in ids /\ x[2] \in ids} |-> rels[k]],
        cluster_members |-> kept,
        clusters |-> {c \in cls : \E m \in kept : m[1] = c},
        vector_status |-> {v \in status : v[1] \in paths}]

\* database.py delete_cluster: DELETE FROM clusters WHERE id = ?, the members
\* going with it (ON DELETE CASCADE).
delete_cluster(cls, members, cluster_id) ==
    [clusters |-> cls \ {cluster_id},
     cluster_members |-> {m \in members : m[1] # cluster_id}]

\* reconcile, what a whole pass persists: add_cluster_members of every
\* component that touches a persisted cluster, in the order of the loop.
RECURSIVE reconcile_members(_, _, _, _)
reconcile_members(members, fresh, db_members, ids) ==
    IF fresh = <<>> THEN members
    ELSE LET comp_paths == Head(fresh)
             pid == primary_id(comp_paths, db_members)
             persist == /\ touched_ids(comp_paths, db_members) # {}
                        /\ pid \in ids
                        /\ new_files_for_db(comp_paths, db_members) # {}
         IN reconcile_members(
                IF persist
                THEN add_cluster_members(members, pid,
                                         new_files_for_db(comp_paths, db_members))
                ELSE members,
                Tail(fresh), db_members, ids)

\* reconcile step 2 as a whole: final_clusters, new_clusters_list and
\* processed_paths after the loop over fresh_components.  The loop of
\* Deduper.process_clusters is the same code.
RECURSIVE reconcile_loop(_, _, _)
reconcile_loop(fresh, db_members, st) ==
    IF fresh = <<>> THEN st
    ELSE LET comp_paths == Head(fresh)
             touched == touched_ids(comp_paths, db_members)
         IN reconcile_loop(Tail(fresh), db_members,
                [final_clusters |->
                     IF touched = {} THEN st.final_clusters
                     ELSE MergeComponent(st.final_clusters, comp_paths, db_members),
                 new_clusters_list |->
                     IF touched = {} THEN Append(st.new_clusters_list, comp_paths)
                     ELSE st.new_clusters_list,
                 processed_paths |-> st.processed_paths \cup comp_paths])

\* ClusterReconciler.reconcile as one call: the member rows after it and the
\* records it returns.
reconcile(cls, members, db_members, fresh_components, global_file_map, allowed_roots) ==
    LET st == reconcile_loop(fresh_components, db_members,
                             [final_clusters |-> [c \in cls |-> {}],
                              new_clusters_list |-> <<>>, processed_paths |-> {}])
        fc == HandleOrphans(st.final_clusters, db_members, st.processed_paths,
                            global_file_map)
        enriched_results ==
            ExistingRecords(DOMAIN fc, fc, global_file_map)
                \o NewRecords(st.new_clusters_list, global_file_map, -1)
    IN [cluster_members |-> reconcile_members(members, fresh_components, db_members, cls),
        result |-> RootFiltering(enriched_results, allowed_roots)]

\* Deduper.process_clusters step 4: the members no component covered stay in
\* their cluster, in file_map or not.
deduper_orphans(final_clusters, db_members, processed_paths) ==
    [c \in DOMAIN final_clusters |->
        final_clusters[c] \cup
            {q \in DOMAIN db_members : db_members[q] = c /\ q \notin processed_paths}]

\* Deduper.process_clusters from step 2 on, as one call: file_map is the
\* paths of get_all_files, scanned_paths the list of get_scanned_paths; with
\* no scanned path the call returns the empty list.
process_clusters(cls, members, db_members, fresh_components, file_map, scanned_paths) ==
    LET st == reconcile_loop(fresh_components, db_members,
                             [final_clusters |-> [c \in cls |-> {}],
                              new_clusters_list |-> <<>>, processed_paths |-> {}])
        fc == deduper_orphans(st.final_clusters, db_members, st.processed_paths)
        enriched_results ==
            ExistingRecords(DOMAIN fc, fc, file_map)
                \o NewRecords(st.new_clusters_list, file_map, -1)
    IN [cluster_members |-> reconcile_members(members, fresh_components, db_members, cls),
        result |-> IF scanned_paths = <<>> THEN <<>>
                   ELSE SelectSeq(enriched_results,
                            LAMBDA clust :
                                \A f \in clust.files : is_within_roots(f, scanned_paths))]

(***************************************************************************)
(* Bounds and inputs                                                       *)
(***************************************************************************)

GraphPaths == <<"/a/x", "/a/y", "/A/z">>
GraphPhashes == {NoPhash, H0, H1}
GraphReasons == {"duplicate", "not_duplicate"}
CriteriaKeys == {"exact_hash", "not_duplicate", "duplicate"}

\* Fingerprints at distances 1, 3, 4, 12..16 of each other.
Fingerprints == {H0, H1, H3, H4, HF}
MihPaths == {"/a/x", "/a/y", "/A/z"}
MihPhashes == {NoPhash, H0, H3, H4}
\* database.py: four chunks of 16 bits.
NumChunks == 4
ChunkWidth == 16
NoCandidates == [done |-> FALSE, rows |-> {}]

MaxAdds == 4
MaxThreshold == 5
NoQuery == [done |-> FALSE, hash_val |-> H0, threshold |-> 0, results |-> <<>>]

\* The reconciler's store and inputs.
MaxClusters == 2
MaxMembers == 3
MaxComponents == 2

\* Fresh components as GraphBuilder returns them: pairwise disjoint, each of
\* at least two paths.
Components == {c \in SUBSET Paths : Cardinality(c) >= 2}
RECURSIVE ComponentLists(_)
ComponentLists(n) ==
    IF n = 0 THEN {<<>>}
    ELSE LET shorter == ComponentLists(n - 1)
         IN shorter \cup
            {Append(fc, c) : <<fc, c>> \in
                {pr \in shorter \X Components :
                    \A i \in 1..Len(pr[1]) : pr[1][i] \cap pr[2] = {}}}
FreshComponents == ComponentLists(MaxComponents)

\* The keys of global_file_map: all paths, or with files gone from the store.
FileMaps == {Paths, Paths \ {"/a/y"}, Paths \ {"/a/x", "/a/y"}}

\* allowed_roots: None, or a list of root folders.
NoRoots == [given |-> FALSE, roots |-> <<>>]
AllowedRoots ==
    {NoRoots} \cup {[given |-> TRUE, roots |-> r] :
                       r \in {<<>>, <<"/a">>, <<"/A/", "/ab">>}}

\* The (global_file_map, allowed_roots) a call is given.
ReconcileArgs == FileMaps \X AllowedRoots

\* A second pass over the store a pass has just used: its kind, the records
\* it returned, and the member rows before and after it.
NoOther == [kind |-> "", result |-> <<>>, members0 |-> {}, cluster_members |-> {}]

RcIdle == [pc |-> "idle", fresh_components |-> <<>>, i |-> 1, db_members |-> << >>,
           final_clusters |-> << >>, new_clusters_list |-> <<>>,
           processed_paths |-> {}, members0 |-> {}, global_file_map |-> {},
           allowed_roots |-> NoRoots, result |-> <<>>, other |-> NoOther]

\* The relation store's inputs: the files, the user's reasons, and the rows an
\* automated run writes (NEW_MATCH with a distance; ids in either order, a
\* pair of one id, an id with no file).
RelPaths == <<"/a/x", "/a/y", "/A/z">>
RelReasons == {"not_duplicate", "duplicate"}
MaxBatch == 2
BatchPairs == {<<2, 1>>, <<1, 3>>, <<2, 2>>, <<1, 4>>}
BatchDistances == {0, 3}
BatchRows ==
    {[id1 |-> pr[1], id2 |-> pr[2], relation_type |-> "new_match", distance |-> d] :
        pr \in BatchPairs, d \in BatchDistances}
Batches == UNION {[1..n -> BatchRows] : n \in 1..MaxBatch}

StorePaths == {RelPaths[i] : i \in 1..Len(RelPaths)}
MaxStoreId == 4

NoWrite == [pc |-> "idle", overwrite |-> FALSE, data |-> <<>>, valid_data |-> <<>>,
            skipped |-> 0, before |-> << >>,
            stats |-> [added |-> 0, skipped |-> 0, errors |-> 0]]

\* The engines' corpus and arguments.
EnginePaths == {"/a/x", "/a/y", "/A/z"}
EnginePhashes == {H1, HA}
MaxFileId == 2
EngineThresholds == {2, 5}
EmbeddingPairs == {pr \in EnginePaths \X EnginePaths : pr[1] # pr[2]}
\* vector_db.query answers: symmetric sets of near pairs.
NearSets == {n \in SUBSET EmbeddingPairs : \A pr \in n : <<pr[2], pr[1]>> \in n}
\* The cosine distance of a near pair, in hundredths (threshold=0.1).
EmbeddingDistance == 5
NoEngine == [done |-> FALSE, path |-> "", threshold |-> 0, include_ignored |-> FALSE,
             relations |-> << >>, joined |-> {}, groups |-> {}, error |-> FALSE,
             tree_hashes |-> {}, corpus_hashes |-> {}, root_paths |-> <<>>]
NoCache == [saved |-> FALSE, nodes |-> <<>>, size |-> 0]
NoIndexRun == [pc |-> "idle", use_gpu |-> FALSE, batch_size |-> 0, files |-> <<>>,
               disk |-> << >>, tasks |-> <<>>, i |-> 0, left |-> {}, batch |-> <<>>,
               up_to_date |-> {}, written |-> {}]

NoDistCall == [done |-> FALSE, hashes1 |-> <<>>, hashes2 |-> <<>>, dists |-> <<>>]

NoUf == [parent |-> << >>, unions |-> {}]

NoCall == [op |-> "", raised |-> FALSE, result |-> FALSE]
NoHistory == [undo_stack |-> <<>>, redo_stack |-> <<>>, last |-> NoCall]

MiscIdle ==
    /\ dist_call = NoDistCall
    /\ uf = NoUf
    /\ history = NoHistory

AuxIdle ==
    /\ engine = NoEngine
    /\ bk_cache = NoCache
    /\ index_run = NoIndexRun
    /\ explicit_deletes = {}
    /\ last_modified = << >>
    /\ vector_status = {}
    /\ MiscIdle

NoGraph == [done |-> FALSE, criteria |-> [k \in CriteriaKeys |-> FALSE],
            files |-> {}, components |-> <<>>]

(***************************************************************************)
(* GraphBuilder over a store: user annotations and graph builds            *)
(***************************************************************************)

GraphInit ==
    /\ \E ph \in [1..Len(GraphPaths) -> GraphPhashes] :
          files = {[id |-> i, path |-> GraphPaths[i], phash |-> ph[i],
                    chunks |-> extract_phash_chunks(ph[i])] : i \in 1..Len(GraphPaths)}
    /\ next_id = Len(GraphPaths) + 1
    /\ file_relations = << >>
    /\ graph = NoGraph
    /\ candidates = NoCandidates
    /\ tree = <<>> /\ tree_size = 0 /\ added = <<>> /\ query_result = NoQuery
    /\ clusters = {} /\ next_cluster_id = 1 /\ cluster_members = {} /\ rc = RcIdle
    /\ rel_write = NoWrite
    /\ AuxIdle

\* results_view.py: the user classifies a pair (add_ignored_pair_id).
AnnotatePair ==
    \E id1 \in FileIds, id2 \in FileIds, reason \in GraphReasons :
        /\ ~graph.done
        /\ id1 # id2
        /\ file_relations' = add_ignored_pair_id(file_relations, id1, id2, reason, NULL)
        /\ file_relations' # file_relations
        /\ graph' = NoGraph
        /\ UNCHANGED <<files, next_id, candidates, bkVars, clusterVars, rel_write, auxVars>>

\* build_graph_and_find_components(files, criteria) on rows read from the store.
BuildGraph ==
    \E criteria \in [CriteriaKeys -> BOOLEAN], fs \in SUBSET files :
        /\ ~graph.done
        /\ Cardinality(fs) >= 2
        /\ graph' = [done |-> TRUE, criteria |-> criteria, files |-> fs,
                     components |-> build_graph_and_find_components(fs, file_relations, criteria)]
        /\ UNCHANGED <<storeVars, candidates, bkVars, clusterVars, rel_write, auxVars>>

\* The caller takes the components returned.
GraphReturn ==
    /\ graph.done
    /\ graph' = NoGraph
    /\ UNCHANGED <<storeVars, candidates, bkVars, clusterVars, rel_write, auxVars>>

GraphNext == AnnotatePair \/ BuildGraph \/ GraphReturn

SpecGraph == GraphInit /\ [][GraphNext]_vars

(***************************************************************************)
(* CandidateFilter over the files table                                    *)
(***************************************************************************)

MihInit ==
    /\ files = {} /\ next_id = 1 /\ file_relations = << >>
    /\ graph = NoGraph
    /\ candidates = NoCandidates
    /\ tree = <<>> /\ tree_size = 0 /\ added = <<>> /\ query_result = NoQuery
    /\ clusters = {} /\ next_cluster_id = 1 /\ cluster_members = {} /\ rc = RcIdle
    /\ rel_write = NoWrite
    /\ AuxIdle

\* DatabaseManager.upsert_file / upsert_files_batch, one row.
UpsertFile ==
    \E path \in MihPaths, phash \in MihPhashes :
        /\ files' = DbUpsertRow(files, next_id, path, phash)
        /\ files' # files
        /\ next_id' = IF path \in FilePaths THEN next_id ELSE next_id + 1
        /\ candidates' = NoCandidates
        /\ UNCHANGED <<file_relations, graph, bkVars, clusterVars, rel_write, auxVars>>

GetPhashCandidates ==
    /\ candidates' = [done |-> TRUE, rows |-> get_phash_candidates(files)]
    /\ UNCHANGED <<storeVars, graph, bkVars, clusterVars, rel_write, auxVars>>

MihNext == UpsertFile \/ GetPhashCandidates

SpecMih == MihInit /\ [][MihNext]_vars

(***************************************************************************)
(* The BK-tree: adds and queries                                           *)
(***************************************************************************)

BkInit ==
    /\ files = {} /\ next_id = 1 /\ file_relations = << >>
    /\ graph = NoGraph
    /\ candidates = NoCandidates
    /\ tree = <<>> /\ tree_size = 0 /\ added = <<>> /\ query_result = NoQuery
    /\ clusters = {} /\ next_cluster_id = 1 /\ cluster_members = {} /\ rc = RcIdle
    /\ rel_write = NoWrite
    /\ AuxIdle

\* BKTree.add(item, hash_val); the item is the ordinal of the call.
Add ==
    \E hash_val \in Fingerprints :
        /\ ~query_result.done
        /\ Len(added) < MaxAdds
        /\ tree' = BKTree_add(tree, Len(added) + 1, hash_val)
        /\ tree_size' = tree_size + 1
        /\ added' = Append(added, <<Len(added) + 1, hash_val>>)
        /\ query_result' = NoQuery
        /\ UNCHANGED <<storeVars, graph, candidates, clusterVars, rel_write, auxVars>>

\* BKTree.query(hash_val, threshold).
Query ==
    \E hash_val \in Fingerprints, threshold \in 0..MaxThreshold :
        /\ ~query_result.done
        /\ query_result' = [done |-> TRUE, hash_val |-> hash_val, threshold |-> threshold,
                            results |-> BKTree_query(tree, hash_val, threshold)]
        /\ UNCHANGED <<storeVars, graph, candidates, tree, tree_size, added, clusterVars, rel_write, auxVars>>

\* The caller takes the list query returned.
QueryReturn ==
    /\ query_result.done
    /\ query_result' = NoQuery
    /\ UNCHANGED <<storeVars, graph, candidates, tree, tree_size, added, clusterVars, rel_write, auxVars>>

BkNext == Add \/ Query \/ QueryReturn

SpecBk == BkInit /\ [][BkNext]_vars

(***************************************************************************)
(* The reconciler over the cluster tables                                  *)
(***************************************************************************)

ReconcileInit ==
    /\ files = {} /\ next_id = 1 /\ file_relations = << >>
    /\ graph = NoGraph
    /\ candidates = NoCandidates
    /\ tree = <<>> /\ tree_size = 0 /\ added = <<>> /\ query_result = NoQuery
    /\ clusters = {} /\ next_cluster_id = 1 /\ cluster_members = {} /\ rc = RcIdle
    /\ rel_write = NoWrite
    /\ AuxIdle

otherVars == <<storeVars, graph, candidates, bkVars, rel_write, auxVars>>

\* database.py create_cluster
CreateCluster ==
    /\ rc.pc = "idle"
    /\ next_cluster_id <= MaxClusters
    /\ clusters' = clusters \cup {next_cluster_id}
    /\ next_cluster_id' = next_cluster_id + 1
    /\ UNCHANGED <<cluster_members, rc, otherVars>>

\* cluster_view.py handle_dropped_files / ensure_cluster_persistence: the user
\* puts a file into a persisted cluster (add_cluster_members); the foreign key
\* needs the cluster to exist.
AddClusterMember ==
    \E c \in clusters, path \in Paths :
        /\ rc.pc = "idle"
        /\ <<c, path>> \notin cluster_members
        /\ Cardinality(cluster_members) < MaxMembers
        /\ cluster_members' = add_cluster_members(cluster_members, c, {path})
        /\ UNCHANGED <<clusters, next_cluster_id, rc, otherVars>>

\* reconcile step 1: the call and the load of the cluster tables.
ReconcileBegin ==
    \E fresh \in FreshComponents, dbm \in get_all_cluster_members(cluster_members) :
        /\ rc.pc = "idle"
        /\ Cardinality(cluster_members) <= MaxMembers
        /\ rc' = [RcIdle EXCEPT
                    !.pc = "loop",
                    !.fresh_components = fresh,
                    !.db_members = dbm,
                    !.final_clusters = [c \in clusters |-> {}],
                    !.members0 = cluster_members]
        /\ UNCHANGED <<clusters, next_cluster_id, cluster_members, otherVars>>

\* reconcile step 2: one pass of the loop over fresh_components.
ReconcileComponent ==
    /\ rc.pc = "loop"
    /\ rc.i <= Len(rc.fresh_components)
    /\ LET comp_paths == rc.fresh_components[rc.i]
           touched == touched_ids(comp_paths, rc.db_members)
           pid == primary_id(comp_paths, rc.db_members)
           persist == touched # {} /\ pid \in DOMAIN rc.final_clusters
                      /\ new_files_for_db(comp_paths, rc.db_members) # {}
       IN /\ rc' = [rc EXCEPT
                      !.new_clusters_list =
                          IF touched = {} THEN Append(@, comp_paths) ELSE @,
                      !.final_clusters =
                          IF touched = {} THEN @
                          ELSE MergeComponent(@, comp_paths, rc.db_members),
                      !.processed_paths = @ \cup comp_paths,
                      !.i = @ + 1]
          /\ cluster_members' =
                IF persist
                THEN add_cluster_members(cluster_members, pid,
                                         new_files_for_db(comp_paths, rc.db_members))
                ELSE cluster_members
    /\ UNCHANGED <<clusters, next_cluster_id, otherVars>>

\* reconcile steps 3 to 5 and the return, for the global_file_map and the
\* allowed_roots the call was given.
ReconcileFinish ==
    \E args \in ReconcileArgs :
        /\ rc.pc = "loop"
        /\ rc.i > Len(rc.fresh_components)
        /\ LET global_file_map == args[1]
               allowed_roots == args[2]
               fc == HandleOrphans(rc.final_clusters, rc.db_members, rc.processed_paths,
                                   global_file_map)
               enriched_results ==
                   ExistingRecords(DOMAIN fc, fc, global_file_map)
                       \o NewRecords(rc.new_clusters_list, global_file_map, -1)
           IN rc' = [rc EXCEPT
                       !.pc = "done",
                       !.final_clusters = fc,
                       !.global_file_map = global_file_map,
                       !.allowed_roots = allowed_roots,
                       !.result = RootFiltering(enriched_results, allowed_roots)]
        /\ UNCHANGED <<clusters, next_cluster_id, cluster_members, otherVars>>

\* The caller takes the records returned.
ReconcileReturn ==
    /\ rc.pc = "done"
    /\ rc' = RcIdle
    /\ UNCHANGED <<clusters, next_cluster_id, cluster_members, otherVars>>

ReconcileNext ==
    \/ CreateCluster
    \/ AddClusterMember
    \/ ReconcileBegin
    \/ ReconcileComponent
    \/ ReconcileFinish
    \/ ReconcileReturn

SpecReconcile == ReconcileInit /\ [][ReconcileNext]_vars

\* reconcile called twice in a row with the same arguments: steps 3 to 5 and
\* the return of the pass under way, and then the second call as a whole.
\* The cluster_members rows of a path come back in the order they came in
\* before (the rows the first pass added are of paths that had none), so the
\* dict of the second load agrees with the first on every path the first had.
ReconcileAgain ==
    \E args \in ReconcileArgs, dbm \in get_all_cluster_members(cluster_members) :
        /\ rc.pc = "loop"
        /\ rc.i > Len(rc.fresh_components)
        /\ \A q \in DOMAIN rc.db_members : dbm[q] = rc.db_members[q]
        /\ LET global_file_map == args[1]
               allowed_roots == args[2]
               fc == HandleOrphans(rc.final_clusters, rc.db_members, rc.processed_paths,
                                   global_file_map)
               enriched_results ==
                   ExistingRecords(DOMAIN fc, fc, global_file_map)
                       \o NewRecords(rc.new_clusters_list, global_file_map, -1)
           IN \E r \in {reconcile(clusters, cluster_members, dbm, rc.fresh_components,
                                   global_file_map, allowed_roots)} :
                 /\ rc' = [rc EXCEPT
                             !.pc = "done",
                             !.final_clusters = fc,
                             !.global_file_map = global_file_map,
                             !.allowed_roots = allowed_roots,
                             !.result = RootFiltering(enriched_results, allowed_roots),
                             !.other = [kind |-> "again", result |-> r.result,
                                        members0 |-> cluster_members,
                                        cluster_members |-> r.cluster_members]]
                 /\ cluster_members' = r.cluster_members
        /\ UNCHANGED <<clusters, next_cluster_id, otherVars>>

\* Deduper.process_clusters on the store as the pass of reconcile found it
\* (the member rows and the dict of its load), with the same fresh
\* components, the keys of global_file_map as the stored files and the list
\* of allowed_roots as the stored scanned paths.
ProcessClusters ==
    /\ rc.pc = "done"
    /\ rc.other = NoOther
    /\ rc.allowed_roots.given
    /\ \E r \in {process_clusters(clusters, rc.members0, rc.db_members,
                                   rc.fresh_components, rc.global_file_map,
                                   rc.allowed_roots.roots)} :
          rc' = [rc EXCEPT !.other = [kind |-> "deduper", result |-> r.result,
                                      members0 |-> rc.members0,
                                      cluster_members |-> r.cluster_members]]
    /\ UNCHANGED <<clusters, next_cluster_id, cluster_members, otherVars>>

TwiceNext ==
    \/ CreateCluster
    \/ AddClusterMember
    \/ ReconcileBegin
    \/ ReconcileComponent
    \/ ReconcileAgain
    \/ ReconcileReturn

SpecTwice == ReconcileInit /\ [][TwiceNext]_vars

DeduperNext == ReconcileNext \/ ProcessClusters

SpecDeduper == ReconcileInit /\ [][DeduperNext]_vars

(***************************************************************************)
(* The relation store: automated matching runs and user annotations        *)
(***************************************************************************)

RelInit ==
    /\ files = {[id |-> i, path |-> RelPaths[i], phash |-> H0,
                 chunks |-> extract_phash_chunks(H0)] : i \in 1..Len(RelPaths)}
    /\ next_id = Len(RelPaths) + 1
    /\ file_relations = << >>
    /\ graph = NoGraph
    /\ candidates = NoCandidates
    /\ tree = <<>> /\ tree_size = 0 /\ added = <<>> /\ query_result = NoQuery
    /\ clusters = {} /\ next_cluster_id = 1 /\ cluster_members = {} /\ rc = RcIdle
    /\ rel_write = NoWrite
    /\ AuxIdle

relOtherVars == <<files, next_id, graph, candidates, bkVars, clusterVars, auxVars>>

\* results_view.py: the user classifies a pair (add_ignored_pair_id); it can
\* fall between the two statements of a running batch.
UserAnnotation ==
    \E id1 \in FileIds, id2 \in FileIds, reason \in RelReasons :
        /\ rel_write.pc # "done"
        /\ id1 # id2
        /\ file_relations' = add_ignored_pair_id(file_relations, id1, id2, reason, NULL)
        /\ file_relations' # file_relations
        /\ UNCHANGED <<rel_write, relOtherVars>>

\* The user clears the annotation of a pair (remove_relation), ids in either
\* order.
RemoveRelation ==
    \E id1 \in FileIds, id2 \in FileIds :
        /\ rel_write.pc # "done"
        /\ id1 # id2
        /\ file_relations' = remove_relation(file_relations, id1, id2)
        /\ file_relations' # file_relations
        /\ UNCHANGED <<rel_write, relOtherVars>>

\* An engine's find_duplicates persists its matches:
\* add_relations_batch(relations, overwrite=False) up to the pre-validation.
BatchValidate ==
    \E relations \in Batches :
        /\ rel_write.pc = "idle"
        /\ LET data == BatchData(relations)
               valid == valid_data(data, existing_ids(data, files))
           IN rel_write' = [NoWrite EXCEPT
                              !.pc = "validated",
                              !.overwrite = FALSE,
                              !.data = data,
                              !.valid_data = valid,
                              !.skipped = Len(data) - Len(valid)]
        /\ UNCHANGED <<file_relations, relOtherVars>>

\* add_relations_batch: the executemany, the commit and the return.
BatchInsert ==
    /\ rel_write.pc = "validated"
    /\ LET r == executemany(file_relations, rel_write.valid_data, rel_write.overwrite)
       IN /\ file_relations' =
                IF rel_write.valid_data = <<>> THEN file_relations ELSE r.rels
          /\ rel_write' = [rel_write EXCEPT
                             !.pc = "done",
                             !.before = file_relations,
                             !.stats = BatchStats(Len(rel_write.valid_data),
                                                  rel_write.skipped, r.error)]
    /\ UNCHANGED relOtherVars

\* The engine takes the statistics returned.
BatchReturn ==
    /\ rel_write.pc = "done"
    /\ rel_write' = NoWrite
    /\ UNCHANGED <<file_relations, relOtherVars>>

RelNext ==
    UserAnnotation \/ RemoveRelation \/ BatchValidate \/ BatchInsert \/ BatchReturn

SpecRelations == RelInit /\ [][RelNext]_vars

(***************************************************************************)
(* The engines over a changing corpus                                      *)
(***************************************************************************)

EngineInit ==
    /\ files = {} /\ next_id = 1 /\ file_relations = << >>
    /\ graph = NoGraph
    /\ candidates = NoCandidates
    /\ tree = <<>> /\ tree_size = 0 /\ added = <<>> /\ query_result = NoQuery
    /\ clusters = {} /\ next_cluster_id = 1 /\ cluster_members = {} /\ rc = RcIdle
    /\ rel_write = NoWrite
    /\ AuxIdle

engineOtherVars == <<graph, candidates, bkVars, clusterVars, rel_write, index_run,
                     explicit_deletes, extVars>>

\* A file is added or re-fingerprinted (upsert_file / upsert_files_batch).
CorpusUpsert ==
    \E path \in EnginePaths, phash \in EnginePhashes :
        /\ ~engine.done
        /\ path \in FilePaths \/ next_id <= MaxFileId
        /\ files' = DbUpsertRow(files, next_id, path, phash)
        /\ files' # files
        /\ next_id' = IF path \in FilePaths THEN next_id ELSE next_id + 1
        /\ UNCHANGED <<file_relations, engine, bk_cache, engineOtherVars>>

\* A file is removed (mark_deleted).
CorpusRemove ==
    \E path \in FilePaths :
        /\ ~engine.done
        /\ files' = mark_deleted(files, file_relations, path).files
        /\ file_relations' = mark_deleted(files, file_relations, path).rels
        /\ UNCHANGED <<next_id, engine, bk_cache, engineOtherVars>>

\* The user marks a pair as no duplicates (add_ignored_pair_id).
CorpusAnnotate ==
    \E id1 \in FileIds, id2 \in FileIds :
        /\ ~engine.done
        /\ id1 < id2
        /\ file_relations' =
               add_ignored_pair_id(file_relations, id1, id2, "not_duplicate", NULL)
        /\ file_relations' # file_relations
        /\ UNCHANGED <<files, next_id, engine, bk_cache, engineOtherVars>>

EngineResult(name, threshold, include_ignored, r) ==
    [NoEngine EXCEPT !.done = TRUE, !.path = name, !.threshold = threshold,
                     !.include_ignored = include_ignored,
                     !.relations = file_relations,
                     !.joined = r.joined, !.groups = r.groups, !.error = r.error]

\* PHashEngine.find_duplicates with use_gpu.
FindDuplicatesGpu ==
    /\ ~engine.done
    /\ \E threshold \in EngineThresholds, include_ignored \in BOOLEAN :
       \E r \in {find_duplicates_gpu(files, file_relations, threshold, include_ignored)} :
           /\ file_relations' = r.rels
           /\ engine' = EngineResult("gpu", threshold, include_ignored, r)
    /\ UNCHANGED <<files, next_id, bk_cache, engineOtherVars>>

\* PHashEngine.find_duplicates without use_gpu.
FindDuplicatesCpu ==
    /\ ~engine.done
    /\ \E threshold \in EngineThresholds, include_ignored \in BOOLEAN :
       \E r \in {find_duplicates_cpu(files, file_relations, bk_cache, threshold,
                                     include_ignored)},
          hs \in {hash_groups({f \in files : f.phash # NoPhash})} :
       \E nodes \in {tree_of_run(bk_cache, hs)} :
           /\ file_relations' = r.rels
           /\ bk_cache' = cache_after_run(bk_cache, hs)
           /\ engine' = [EngineResult("cpu", threshold, include_ignored, r) EXCEPT
                           !.tree_hashes = {nodes[i].hash_val : i \in 1..Len(nodes)},
                           !.corpus_hashes = {hs[i] : i \in 1..Len(hs)}]
    /\ UNCHANGED <<files, next_id, engineOtherVars>>

\* BaseAIEngine.find_duplicates of an embedding engine.
FindDuplicatesEmbedding ==
    /\ ~engine.done
    /\ \E near \in NearSets \ {{}}, include_ignored \in BOOLEAN :
       \E r \in {find_duplicates_embedding(files, file_relations, near,
                                           EmbeddingDistance, include_ignored)} :
           /\ file_relations' = r.rels
           /\ engine' = EngineResult("embedding", 0, include_ignored, r)
    /\ UNCHANGED <<files, next_id, bk_cache, engineOtherVars>>

\* The caller takes the groups returned.
EngineReturn ==
    /\ engine.done
    /\ engine' = NoEngine
    /\ UNCHANGED <<storeVars, bk_cache, engineOtherVars>>

EngineNext ==
    \/ CorpusUpsert \/ CorpusAnnotate
    \/ FindDuplicatesGpu \/ FindDuplicatesCpu \/ FindDuplicatesEmbedding
    \/ EngineReturn

SpecEngine == EngineInit /\ [][EngineNext]_vars

\* The BK-tree cache over corpus changes: files added, re-fingerprinted and
\* removed between the runs of the CPU path.
CacheNext == CorpusUpsert \/ CorpusRemove \/ FindDuplicatesCpu \/ EngineReturn

SpecCache == EngineInit /\ [][CacheNext]_vars

(***************************************************************************)
(* Clusters under reconcile passes, maintenance sweeps and deletions       *)
(***************************************************************************)

MaintInit ==
    /\ files = {[id |-> i, path |-> RelPaths[i], phash |-> H0,
                 chunks |-> extract_phash_chunks(H0)] : i \in 1..Len(RelPaths)}
    /\ next_id = Len(RelPaths) + 1
    /\ file_relations = << >>
    /\ graph = NoGraph
    /\ candidates = NoCandidates
    /\ tree = <<>> /\ tree_size = 0 /\ added = <<>> /\ query_result = NoQuery
    /\ clusters = {} /\ next_cluster_id = 1 /\ cluster_members = {} /\ rc = RcIdle
    /\ rel_write = NoWrite
    /\ AuxIdle

maintRest == <<next_id, graph, candidates, bkVars, rc, rel_write, engine, bk_cache,
               index_run, last_modified, miscVars>>
maintOtherVars == <<maintRest, vector_status>>

\* A whole reconcile pass, as far as the tables go.
MaintReconcile ==
    \E fresh \in FreshComponents, dbm \in get_all_cluster_members(cluster_members) :
        /\ Cardinality(cluster_members) <= MaxMembers
        /\ cluster_members' = reconcile_members(cluster_members, fresh, dbm, clusters)
        /\ UNCHANGED <<files, file_relations, clusters, next_cluster_id, explicit_deletes,
                       maintOtherVars>>

\* settings_dialog.py, maintenance step 1; missing: the paths gone from disk.
CleanupMissingFiles ==
    \E missing \in SUBSET FilePaths :
        /\ missing # {}
        /\ files' = cleanup_missing_files(files, file_relations, missing).files
        /\ file_relations' = cleanup_missing_files(files, file_relations, missing).rels
        /\ UNCHANGED <<clusters, next_cluster_id, cluster_members, explicit_deletes,
                       maintOtherVars>>

\* settings_dialog.py, maintenance step 2.
CleanupOrphans ==
    \E r \in {cleanup_orphans(files, file_relations, clusters, cluster_members,
                               vector_status)} :
        /\ file_relations' = r.rels
        /\ cluster_members' = r.cluster_members
        /\ clusters' = r.clusters
        /\ vector_status' = r.vector_status
        /\ UNCHANGED <<files, next_cluster_id, explicit_deletes, maintRest>>

\* cluster_view.py delete_cluster_action: the user deletes a cluster.
DeleteCluster ==
    \E c \in clusters :
        /\ clusters' = delete_cluster(clusters, cluster_members, c).clusters
        /\ cluster_members' = delete_cluster(clusters, cluster_members, c).cluster_members
        /\ explicit_deletes' = explicit_deletes \cup {c}
        /\ UNCHANGED <<files, file_relations, next_cluster_id, maintOtherVars>>

\* cluster_view.py: the user clears all clusters (delete_all_clusters).
DeleteAllClusters ==
    /\ clusters # {}
    /\ clusters' = {}
    /\ cluster_members' = {}
    /\ explicit_deletes' = explicit_deletes \cup clusters
    /\ UNCHANGED <<files, file_relations, next_cluster_id, maintOtherVars>>

MaintNext ==
    \/ CreateCluster
    \/ AddClusterMember
    \/ MaintReconcile
    \/ CleanupMissingFiles
    \/ CleanupOrphans
    \/ DeleteCluster
    \/ DeleteAllClusters

SpecMaintenance == MaintInit /\ [][MaintNext]_vars

(***************************************************************************)
(* Relations over a changing files table                                   *)
(***************************************************************************)

StoreInit == RelInit

storeOtherVars == <<graph, candidates, bkVars, clusterVars, auxVars>>

\* A scan registers a file (upsert_file); a path already stored keeps its id.
StoreUpsert ==
    \E path \in StorePaths :
        /\ path \notin FilePaths
        /\ next_id <= MaxStoreId
        /\ files' = DbUpsertRow(files, next_id, path, H0)
        /\ next_id' = next_id + 1
        /\ UNCHANGED <<file_relations, rel_write, storeOtherVars>>

\* file_ops: a file was deleted on disk (mark_deleted).
MarkDeleted ==
    \E path \in FilePaths :
        /\ files' = mark_deleted(files, file_relations, path).files
        /\ file_relations' = mark_deleted(files, file_relations, path).rels
        /\ UNCHANGED <<next_id, rel_write, storeOtherVars>>

\* file_ops: a file was moved or renamed on disk (move_file).
MoveFile ==
    \E old_path \in FilePaths, new_path \in StorePaths :
        /\ old_path # new_path
        /\ files' = move_file(files, file_relations, old_path, new_path).files
        /\ file_relations' = move_file(files, file_relations, old_path, new_path).rels
        /\ UNCHANGED <<next_id, rel_write, storeOtherVars>>

\* The user classifies a pair the view still shows; the ids may be of files
\* deleted since (add_ignored_pair_id).
StoreAnnotate ==
    \E id1 \in 1..MaxStoreId, id2 \in 1..MaxStoreId :
        /\ id1 # id2
        /\ file_relations' =
               add_ignored_pair_id(file_relations, id1, id2, "not_duplicate", NULL)
        /\ file_relations' # file_relations
        /\ UNCHANGED <<files, next_id, rel_write, storeOtherVars>>

\* add_relations_batch as one call, with either value of overwrite.
StoreBatch ==
    \E relations \in Batches, overwrite \in BOOLEAN :
        /\ file_relations' = add_relations_batch(file_relations, files, relations, overwrite)
        /\ file_relations' # file_relations
        /\ UNCHANGED <<files, next_id, rel_write, storeOtherVars>>

StoreNext ==
    \/ StoreUpsert \/ MarkDeleted \/ MoveFile
    \/ StoreAnnotate \/ RemoveRelation \/ StoreBatch

SpecStore == StoreInit /\ [][StoreNext]_vars

(***************************************************************************)
(* PHashEngine.index_files                                                 *)
(***************************************************************************)

\* What the disk holds for a path during a run: an image with its
\* fingerprint, a file that Image.open/img.load rejects, or nothing (os.stat
\* raises OSError).
Gone == [state |-> "gone", phash |-> NoPhash, mtime |-> 0]
CorruptAt(m) == [state |-> "corrupt", phash |-> NoPhash, mtime |-> m]
\* The image of a path in its v-th version: its mtime and its fingerprint.
VersionPhash(v) == IF v = 1 THEN H1 ELSE HA
Image(v) == [state |-> "ok", phash |-> VersionPhash(v), mtime |-> v]
Versions == {1, 2}
DiskStates == {Gone} \cup {CorruptAt(v) : v \in Versions} \cup {Image(v) : v \in Versions}

\* The files argument: the scanned paths, in scan order.
IndexOrder == <<"/a/x", "/a/y">>
RECURSIVE SubSeqOf(_, _)
SubSeqOf(sq, keep) ==
    IF sq = <<>> THEN <<>>
    ELSE IF Head(sq) \in keep THEN <<Head(sq)>> \o SubSeqOf(Tail(sq), keep)
    ELSE SubSeqOf(Tail(sq), keep)
IndexPaths == {IndexOrder[k] : k \in 1..Len(IndexOrder)}
IndexFileLists == {SubSeqOf(IndexOrder, keep) : keep \in (SUBSET IndexPaths) \ {{}}}

\* config.get_batch_size('phash') or 32
IndexBatchSizes == {1, 2, 32}
\* _index_files_cpu: batch_size = 1000
CpuBatchSize == 1000

\* index_files, the mutant that skips nothing but the files whose stat fails.
RECURSIVE index_tasks_all(_, _, _, _)
index_tasks_all(fl, table, mtimes, disk) ==
    IF fl = <<>> THEN <<>>
    ELSE IF disk[Head(fl)].state = "gone"
         THEN index_tasks_all(Tail(fl), table, mtimes, disk)
         ELSE <<Head(fl)>> \o index_tasks_all(Tail(fl), table, mtimes, disk)

\* index_files: the paths that need hashing. A path whose stat fails is
\* skipped, and so is one whose row has the same mtime and a fingerprint.
RECURSIVE index_tasks(_, _, _, _)
index_tasks(fl, table, mtimes, disk) ==
    IF fl = <<>> THEN <<>>
    ELSE LET path == Head(fl)
             rest == index_tasks(Tail(fl), table, mtimes, disk)
         IN  IF disk[path].state = "gone" THEN rest
             ELSE IF /\ \E f \in table : f.path = path /\ f.phash # NoPhash
                     /\ path \in DOMAIN mtimes
                     /\ mtimes[path] = disk[path].mtime
                  THEN rest
                  ELSE <<path>> \o rest

\* database.py upsert_files_batch: one upsert per (path, phash) of the batch.
RECURSIVE upsert_files_batch(_, _, _)
upsert_files_batch(table, nid, file_data) ==
    IF file_data = <<>> THEN [files |-> table, next_id |-> nid]
    ELSE LET item == Head(file_data)
             known == \E f \in table : f.path = item.path
         IN  upsert_files_batch(DbUpsertRow(table, nid, item.path, item.phash),
                                IF known THEN nid ELSE nid + 1, Tail(file_data))

\* upsert_files_batch: last_modified=excluded.last_modified
upsert_mtimes(mtimes, file_data) ==
    LET written == {file_data[k].path : k \in 1..Len(file_data)}
        last(p) == CHOOSE k \in 1..Len(file_data) :
                       /\ file_data[k].path = p
                       /\ \A j \in (k+1)..Len(file_data) : file_data[j].path # p
    IN  [p \in DOMAIN mtimes \cup written |->
            IF p \in written THEN file_data[last(p)].mtime ELSE mtimes[p]]

\* The (path, hash, mtime) rows of a batch of loaded images.
DbBatch(batch, disk) ==
    [k \in 1..Len(batch) |-> [path |-> batch[k], phash |-> disk[batch[k]].phash,
                              mtime |-> disk[batch[k]].mtime]]

\* The flush test of the GPU loop, after task i (from 0) was loaded.
gpu_flush_due(batch, batch_size, i, total_tasks) ==
    Len(batch) >= batch_size \/ i = total_tasks - 1

\* The files of fl whose row has a fingerprint and the mtime the disk shows.
UpToDate(fl, table, mtimes, disk) ==
    {p \in {fl[k] : k \in 1..Len(fl)} :
        /\ disk[p].state # "gone"
        /\ p \in DOMAIN mtimes /\ mtimes[p] = disk[p].mtime
        /\ \E f \in table : f.path = p /\ f.phash # NoPhash}

\* A fresh database.
IndexInit ==
    /\ files = {} /\ next_id = 1
    /\ file_relations = << >>
    /\ graph = NoGraph
    /\ candidates = NoCandidates
    /\ tree = <<>> /\ tree_size = 0 /\ added = <<>> /\ query_result = NoQuery
    /\ clusters = {} /\ next_cluster_id = 1 /\ cluster_members = {} /\ rc = RcIdle
    /\ rel_write = NoWrite
    /\ AuxIdle

indexOtherVars == <<file_relations, graph, candidates, bkVars, clusterVars, rel_write,
                    engine, bk_cache, explicit_deletes, vector_status, miscVars>>

\* index_files up to the dispatch: the tasks are filtered, and the run is
\* over when nothing needs hashing. A call follows the return of the one
\* before, or its interruption.
IndexFiles ==
    /\ index_run.pc \in {"idle", "done"}
    /\ \E fl \in IndexFileLists, use_gpu \in BOOLEAN, batch_size \in IndexBatchSizes :
       \E disk \in [{fl[k] : k \in 1..Len(fl)} -> DiskStates] :
           \E tasks \in {index_tasks(fl, files, last_modified, disk)} :
               index_run' = [pc |-> IF tasks = <<>> THEN "done"
                                    ELSE IF use_gpu THEN "gpu" ELSE "cpu",
                             use_gpu |-> use_gpu, batch_size |-> batch_size,
                             files |-> fl, disk |-> disk, tasks |-> tasks, i |-> 0,
                             left |-> 1..Len(tasks), batch |-> <<>>,
                             up_to_date |-> UpToDate(fl, files, last_modified, disk),
                             written |-> {}]
    /\ UNCHANGED <<files, next_id, last_modified, indexOtherVars>>

\* The batch is hashed and stored.
StoreBatchOf(batch) ==
    \E r \in {upsert_files_batch(files, next_id, DbBatch(batch, index_run.disk))} :
        /\ files' = r.files
        /\ next_id' = r.next_id
        /\ last_modified' = upsert_mtimes(last_modified, DbBatch(batch, index_run.disk))

\* _index_files_gpu: one turn of the loop over the tasks. A file that does
\* not load is counted and the turn ends there (continue); a loaded one joins
\* the batch, which is hashed and stored when it is full or the task is the
\* last one.
GpuTask ==
    /\ index_run.pc = "gpu"
    /\ index_run.i < Len(index_run.tasks)
    /\ LET path == index_run.tasks[index_run.i + 1]
           batch == Append(index_run.batch, path)
       IN  IF index_run.disk[path].state # "ok"
           THEN /\ index_run' = [index_run EXCEPT !.i = @ + 1]
                /\ UNCHANGED <<files, next_id, last_modified>>
           ELSE IF gpu_flush_due(batch, index_run.batch_size, index_run.i,
                                 Len(index_run.tasks))
           THEN /\ StoreBatchOf(batch)
                /\ index_run' = [index_run EXCEPT !.i = @ + 1, !.batch = <<>>,
                        !.written = @ \cup {batch[k] : k \in 1..Len(batch)}]
           ELSE /\ index_run' = [index_run EXCEPT !.i = @ + 1, !.batch = batch]
                /\ UNCHANGED <<files, next_id, last_modified>>
    /\ UNCHANGED indexOtherVars

\* _index_files_gpu returns when the loop is over.
GpuReturn ==
    /\ index_run.pc = "gpu"
    /\ index_run.i = Len(index_run.tasks)
    /\ index_run' = [index_run EXCEPT !.pc = "done"]
    /\ UNCHANGED <<files, next_id, last_modified, indexOtherVars>>

\* _index_files_cpu: one result of pool.imap_unordered, in any order. The
\* worker calculate_hash gives hash_val None for a file it cannot open.
CpuResult ==
    /\ index_run.pc = "cpu"
    /\ \E k \in index_run.left :
       LET path == index_run.tasks[k]
           batch == Append(index_run.batch, path)
       IN  IF index_run.disk[path].state # "ok"
           THEN /\ index_run' = [index_run EXCEPT !.left = @ \ {k}]
                /\ UNCHANGED <<files, next_id, last_modified>>
           ELSE IF Len(batch) >= CpuBatchSize
           THEN /\ StoreBatchOf(batch)
                /\ index_run' = [index_run EXCEPT !.left = @ \ {k}, !.batch = <<>>,
                        !.written = @ \cup {batch[j] : j \in 1..Len(batch)}]
           ELSE /\ index_run' = [index_run EXCEPT !.left = @ \ {k}, !.batch = batch]
                /\ UNCHANGED <<files, next_id, last_modified>>
    /\ UNCHANGED indexOtherVars

\* _index_files_cpu after the pool: the rest of the batch is stored.
CpuReturn ==
    /\ index_run.pc = "cpu"
    /\ index_run.left = {}
    /\ StoreBatchOf(index_run.batch)
    /\ index_run' = [index_run EXCEPT !.pc = "done", !.batch = <<>>,
            !.written = @ \cup {index_run.batch[j] : j \in 1..Len(index_run.batch)}]
    /\ UNCHANGED indexOtherVars

\* The run is interrupted (the application is closed during
\* QCoreApplication.processEvents, or the process dies): what was stored stays.
IndexInterrupt ==
    /\ index_run.pc \in {"gpu", "cpu"}
    /\ index_run' = [index_run EXCEPT !.pc = "idle"]
    /\ UNCHANGED <<files, next_id, last_modified, indexOtherVars>>

IndexNext ==
    IndexFiles \/ GpuTask \/ GpuReturn \/ CpuResult \/ CpuReturn \/ IndexInterrupt

SpecIndex == IndexInit /\ [][IndexNext]_vars

(***************************************************************************)
(* The orphan sweep over files that come and go                            *)
(***************************************************************************)

VectorEngines == {"mobilenet"}
MaxStatusRows == 1

sweepOtherVars == <<graph, candidates, bkVars, rel_write, engine, bk_cache, index_run,
                    explicit_deletes, last_modified, miscVars>>

\* An AI engine has embedded a stored file (mark_paths_indexed).
MarkPathsIndexed ==
    \E path \in FilePaths, eng \in VectorEngines :
        /\ <<path, eng>> \notin vector_status
        /\ Cardinality(vector_status) < MaxStatusRows
        /\ vector_status' = vector_status \cup {<<path, eng>>}
        /\ UNCHANGED <<storeVars, clusterVars, sweepOtherVars>>

\* A member row for a stored file (add_cluster_members).
SweepAddMember ==
    \E c \in clusters, path \in FilePaths :
        /\ <<c, path>> \notin cluster_members
        /\ Cardinality(cluster_members) < MaxMembers
        /\ cluster_members' = add_cluster_members(cluster_members, c, {path})
        /\ UNCHANGED <<storeVars, clusters, next_cluster_id, rc, vector_status,
                       sweepOtherVars>>

\* The user classifies a pair of stored files (add_ignored_pair_id).
SweepAnnotate ==
    \E id1 \in FileIds, id2 \in FileIds, reason \in RelReasons :
        /\ id1 < id2
        /\ file_relations' = add_ignored_pair_id(file_relations, id1, id2, reason, NULL)
        /\ file_relations' # file_relations
        /\ UNCHANGED <<files, next_id, clusterVars, vector_status, sweepOtherVars>>

SweepNext ==
    \/ MarkDeleted
    \/ SweepAnnotate
    \/ CreateCluster
    \/ SweepAddMember
    \/ MarkPathsIndexed
    \/ CleanupOrphans

SpecSweep == StoreInit /\ [][SweepNext]_vars

(***************************************************************************)
(* GPUBatchSearch.compute_distances                                        *)
(***************************************************************************)

\* popcount_lut: bin(i).count('1') for i in range(256)
popcount_lut == [v \in 0..255 |-> Cardinality({i \in 0..7 : Bit(v, i) = 1})]

\* The low nibble alone.
hash_to_bytes_low(h) == [j \in 1..8 |-> h[18 - 2 * j]]

\* hash_to_bytes: (val >> (i * 8)) & 0xFF for i in range(8), val the integer
\* of the 16 hex digits; byte i is made of the digits 15-2i and 16-2i.
hash_to_bytes(h) == [j \in 1..8 |-> 16 * h[17 - 2 * j] + h[18 - 2 * j]]

\* b1 ^ b2 on two uint8 values.
ByteXor(a, b) ==
    SumSeq([i \in 1..8 |-> (2 ^ (i - 1)) * ((Bit(a, i - 1) + Bit(b, i - 1)) % 2)])

\* compute_distances: per pair, the LUT counts of the eight XOR bytes summed.
compute_distances(hashes1, hashes2) ==
    IF hashes1 = <<>> THEN <<>>
    ELSE [n \in 1..Len(hashes1) |->
            LET b1 == hash_to_bytes(hashes1[n])
                b2 == hash_to_bytes(hashes2[n])
            IN  SumSeq([j \in 1..8 |-> popcount_lut[ByteXor(b1[j], b2[j])]])]

\* Fingerprints with bits in both nibbles of a byte.
HFF == [i \in 1..16 |-> 15]                     \* ffffffffffffffff
H80 == <<8>> \o [i \in 1..15 |-> 0]             \* 8000000000000000
HA5 == [i \in 1..16 |-> IF i % 2 = 1 THEN 10 ELSE 5]   \* a5a5a5a5a5a5a5a5
H5A == [i \in 1..16 |-> IF i % 2 = 1 THEN 5 ELSE 10]   \* 5a5a5a5a5a5a5a5a
DistHashes == {H0, H1, HFF, H80, HA5, H5A}
MaxPairs == 2

RECURSIVE PairLists(_)
PairLists(n) ==
    IF n = 0 THEN {<<>>}
    ELSE PairLists(n - 1) \cup
         {Append(l, pr) : l \in {x \in PairLists(n - 1) : Len(x) = n - 1},
                          pr \in DistHashes \X DistHashes}

\* A call with the candidate pairs as two parallel lists.
DistInit ==
    /\ files = {} /\ next_id = 1 /\ file_relations = << >>
    /\ graph = NoGraph
    /\ candidates = NoCandidates
    /\ tree = <<>> /\ tree_size = 0 /\ added = <<>> /\ query_result = NoQuery
    /\ clusters = {} /\ next_cluster_id = 1 /\ cluster_members = {} /\ rc = RcIdle
    /\ rel_write = NoWrite
    /\ engine = NoEngine /\ bk_cache = NoCache /\ index_run = NoIndexRun
    /\ explicit_deletes = {} /\ last_modified = << >> /\ vector_status = {}
    /\ uf = NoUf /\ history = NoHistory
    /\ \E pairs \in PairLists(MaxPairs) :
           dist_call = [done |-> FALSE,
                        hashes1 |-> [n \in 1..Len(pairs) |-> pairs[n][1]],
                        hashes2 |-> [n \in 1..Len(pairs) |-> pairs[n][2]],
                        dists |-> <<>>]

distOtherVars == <<storeVars, graph, candidates, bkVars, clusterVars, rel_write, engine,
                   bk_cache, index_run, explicit_deletes, last_modified, vector_status,
                   uf, history>>

ComputeDistances ==
    /\ ~dist_call.done
    /\ dist_call' = [dist_call EXCEPT !.done = TRUE,
                         !.dists = compute_distances(dist_call.hashes1, dist_call.hashes2)]
    /\ UNCHANGED distOtherVars

DistNext == ComputeDistances

SpecDistances == DistInit /\ [][DistNext]_vars

(***************************************************************************)
(* The union-find of the engines' find_duplicates                          *)
(***************************************************************************)

\* The items of the call (file ids, fingerprints or paths), and how many
\* distinct pairs are joined.
UfNodes == {1, 2, 3, 4}
MaxUnions == 4

\* find: the root of i, every node on the way re-parented to it.
RECURSIVE find(_, _)
find(parent, i) ==
    IF parent[i] # i
    THEN LET r == find(parent, parent[i])
         IN  [parent |-> [r.parent EXCEPT ![i] = r.root], root |-> r.root]
    ELSE [parent |-> parent, root |-> i]

\* union with the first item itself re-parented, not its root.
union_item(parent, i1, i2) ==
    LET f1 == find(parent, i1)
        f2 == find(f1.parent, i2)
    IN  IF f1.root # f2.root THEN [f2.parent EXCEPT ![i1] = f2.root] ELSE f2.parent

\* union: the root of the first item gets the root of the second as parent.
union(parent, i1, i2) ==
    LET f1 == find(parent, i1)
        f2 == find(f1.parent, i2)
    IN  IF f1.root # f2.root THEN [f2.parent EXCEPT ![f1.root] = f2.root] ELSE f2.parent

\* parent = {x: x for x in ...}
UfInit ==
    /\ files = {} /\ next_id = 1 /\ file_relations = << >>
    /\ graph = NoGraph
    /\ candidates = NoCandidates
    /\ tree = <<>> /\ tree_size = 0 /\ added = <<>> /\ query_result = NoQuery
    /\ clusters = {} /\ next_cluster_id = 1 /\ cluster_members = {} /\ rc = RcIdle
    /\ rel_write = NoWrite
    /\ engine = NoEngine /\ bk_cache = NoCache /\ index_run = NoIndexRun
    /\ explicit_deletes = {} /\ last_modified = << >> /\ vector_status = {}
    /\ dist_call = NoDistCall /\ history = NoHistory
    /\ uf = [parent |-> [x \in UfNodes |-> x], unions |-> {}]

ufOtherVars == <<storeVars, graph, candidates, bkVars, clusterVars, rel_write, engine,
                 bk_cache, index_run, explicit_deletes, last_modified, vector_status,
                 dist_call, history>>

\* The loop over the matches: union(a, b).
Union ==
    \E a \in UfNodes, b \in UfNodes :
        /\ a # b
        /\ Cardinality(uf.unions \cup {{a, b}}) <= MaxUnions
        /\ uf' = [parent |-> union(uf.parent, a, b), unions |-> uf.unions \cup {{a, b}}]
        /\ uf' # uf
        /\ UNCHANGED ufOtherVars

\* The grouping loop: root = find(x).
Find ==
    \E x \in UfNodes :
        /\ uf' = [uf EXCEPT !.parent = find(uf.parent, x).parent]
        /\ uf' # uf
        /\ UNCHANGED ufOtherVars

UfNext == Union \/ Find

SpecUnionFind == UfInit /\ [][UfNext]_vars

(***************************************************************************)
(* find_duplicates with root_paths                                         *)
(***************************************************************************)

\* root_paths of a scan.
EngineRoots == {<<"/a">>, <<"/A/">>, <<"/ab">>}

\* get_files_in_roots: path = root OR path LIKE root || '/%', root normalised;
\* LIKE does not tell the case of ASCII letters apart. No roots, no rows.
get_files_in_roots(table, roots) ==
    {f \in table : \E i \in 1..Len(roots) :
        LET norm_root == normpath(Chars(roots[i]))
        IN  \/ Chars(f.path) = norm_root
            \/ startswith(lower(Chars(f.path)), lower(norm_root \o <<"/">>))}

\* The engines' "if files is None": the rows of the roots, or all rows.
files_of_call(table, root_paths) ==
    IF root_paths # <<>> THEN get_files_in_roots(table, root_paths) ELSE table

\* _find_duplicates_cpu, is_in_roots: the root itself or below root + os.sep.
cpu_files(table, root_paths) ==
    IF root_paths = <<>> THEN files_of_call(table, root_paths)
    ELSE {f \in files_of_call(table, root_paths) : \E i \in 1..Len(root_paths) :
            LET r == normpath(Chars(root_paths[i]))
                norm_path == normpath(Chars(f.path))
            IN  norm_path = r \/ startswith(norm_path, r \o <<"/">>)}

\* BaseAIEngine.find_duplicates: normpath(path).startswith(r)
embedding_files(table, root_paths) ==
    IF root_paths = <<>> THEN files_of_call(table, root_paths)
    ELSE {f \in files_of_call(table, root_paths) : \E i \in 1..Len(root_paths) :
            startswith(normpath(Chars(f.path)), normpath(Chars(root_paths[i])))}

\* _find_duplicates_gpu takes root_paths and never reads it.
find_duplicates_gpu_in_roots(table, rels, threshold, root_paths, include_ignored) ==
    find_duplicates_gpu(table, rels, threshold, include_ignored)

\* _find_duplicates_cpu on the files of the roots.
find_duplicates_cpu_in_roots(table, rels, cache, threshold, root_paths, include_ignored) ==
    find_duplicates_cpu(cpu_files(table, root_paths), rels, cache, threshold,
                        include_ignored)

\* BaseAIEngine.find_duplicates on the files of the roots: path_to_id covers
\* the rows of get_files_in_roots, parent the filtered files.
find_duplicates_embedding_in_roots(table, rels, near, dist, root_paths, include_ignored) ==
    LET valid_files == {f.path : f \in embedding_files(table, root_paths)}
        known == get_files_in_roots(table, root_paths)
        id(p) == (CHOOSE f \in known : f.path = p).id
        found == {pr \in near : /\ pr[1] \in valid_files
                                /\ pr[1] \in {f.path : f \in known}
                                /\ pr[2] \in {f.path : f \in known}
                                /\ pr[1] # pr[2]}
        found_pairs == {NewMatch(id(pr[1]), id(pr[2]), dist) : pr \in found}
        unions == {pr \in found :
                     /\ include_ignored \/ ~is_ignored(rels, id(pr[1]), id(pr[2]))
                     /\ pr[2] \in valid_files}
        classes == union_find(valid_files, unions)
        groups == {{id(p) : p \in c} : c \in classes}
    IN [rels |-> IF found_pairs = {} THEN rels
                 ELSE add_relations_batch(rels, table, SeqOfSet(found_pairs), FALSE),
        joined |-> {Sorted2(id(pr[1]), id(pr[2])) : pr \in unions},
        groups |-> {g \in groups : Cardinality(g) > 1},
        error |-> FALSE]

\* PHashEngine.find_duplicates with use_gpu, for the roots of a scan.
FindInRootsGpu ==
    /\ ~engine.done
    /\ \E threshold \in EngineThresholds, root_paths \in EngineRoots :
       \E r \in {find_duplicates_gpu_in_roots(files, file_relations, threshold,
                                              root_paths, FALSE)} :
           /\ file_relations' = r.rels
           /\ engine' = [EngineResult("gpu", threshold, FALSE, r) EXCEPT
                           !.root_paths = root_paths]
    /\ UNCHANGED <<files, next_id, bk_cache, engineOtherVars>>

\* PHashEngine.find_duplicates without use_gpu, for the roots of a scan.
FindInRootsCpu ==
    /\ ~engine.done
    /\ \E threshold \in EngineThresholds, root_paths \in EngineRoots :
       \E r \in {find_duplicates_cpu_in_roots(files, file_relations, bk_cache, threshold,
                                              root_paths, FALSE)},
          hs \in {hash_groups({f \in cpu_files(files, root_paths) : f.phash # NoPhash})} :
           /\ file_relations' = r.rels
           /\ bk_cache' = cache_after_run(bk_cache, hs)
           /\ engine' = [EngineResult("cpu", threshold, FALSE, r) EXCEPT
                           !.root_paths = root_paths]
    /\ UNCHANGED <<files, next_id, engineOtherVars>>

\* BaseAIEngine.find_duplicates, for the roots of a scan.
FindInRootsEmbedding ==
    /\ ~engine.done
    /\ \E near \in NearSets \ {{}}, root_paths \in EngineRoots :
       \E r \in {find_duplicates_embedding_in_roots(files, file_relations, near,
                                                    EmbeddingDistance, root_paths,
                                                    FALSE)} :
           /\ file_relations' = r.rels
           /\ engine' = [EngineResult("embedding", 0, FALSE, r) EXCEPT
                           !.root_paths = root_paths]
    /\ UNCHANGED <<files, next_id, bk_cache, engineOtherVars>>

RootsNext ==
    \/ CorpusUpsert
    \/ FindInRootsGpu \/ FindInRootsCpu \/ FindInRootsEmbedding
    \/ EngineReturn

SpecRoots == EngineInit /\ [][RootsNext]_vars

(***************************************************************************)
(* CommandHistory                                                          *)
(***************************************************************************)

\* CommandHistory(max_len): the length of the two deques.
MaxLen == 2
HistoryCommands == {"c1", "c2", "c3"}

\* deque(maxlen=max_len).append: a full deque drops its oldest element.
deque_append(dq, x) ==
    IF Len(dq) >= MaxLen THEN Append(Tail(dq), x) ELSE Append(dq, x)

\* execute with the command recorded before it is run.
execute_recorded_first(h, command, raises) ==
    [undo_stack |-> deque_append(h.undo_stack, command), redo_stack |-> <<>>,
     last |-> [op |-> "execute", raised |-> raises, result |-> ~raises]]

\* CommandHistory.execute: command.execute() first; what raises is caught
\* and False returned, otherwise the command is recorded and redo cleared.
execute(h, command, raises) ==
    IF raises
    THEN [h EXCEPT !.last = [op |-> "execute", raised |-> TRUE, result |-> FALSE]]
    ELSE [undo_stack |-> deque_append(h.undo_stack, command), redo_stack |-> <<>>,
          last |-> [op |-> "execute", raised |-> FALSE, result |-> TRUE]]

\* CommandHistory.undo: the command is popped before command.undo() is tried.
undo(h, raises) ==
    IF h.undo_stack = <<>>
    THEN [h EXCEPT !.last = [op |-> "undo", raised |-> FALSE, result |-> FALSE]]
    ELSE LET command == h.undo_stack[Len(h.undo_stack)]
             popped == SubSeq(h.undo_stack, 1, Len(h.undo_stack) - 1)
         IN  IF raises
             THEN [undo_stack |-> popped, redo_stack |-> h.redo_stack,
                   last |-> [op |-> "undo", raised |-> TRUE, result |-> FALSE]]
             ELSE [undo_stack |-> popped,
                   redo_stack |-> deque_append(h.redo_stack, command),
                   last |-> [op |-> "undo", raised |-> FALSE, result |-> TRUE]]

\* CommandHistory.redo: the command is popped before command.execute() is tried.
redo(h, raises) ==
    IF h.redo_stack = <<>>
    THEN [h EXCEPT !.last = [op |-> "redo", raised |-> FALSE, result |-> FALSE]]
    ELSE LET command == h.redo_stack[Len(h.redo_stack)]
             popped == SubSeq(h.redo_stack, 1, Len(h.redo_stack) - 1)
         IN  IF raises
             THEN [undo_stack |-> h.undo_stack, redo_stack |-> popped,
                   last |-> [op |-> "redo", raised |-> TRUE, result |-> FALSE]]
             ELSE [undo_stack |-> deque_append(h.undo_stack, command),
                   redo_stack |-> popped,
                   last |-> [op |-> "redo", raised |-> FALSE, result |-> TRUE]]

HistoryInit ==
    /\ files = {} /\ next_id = 1 /\ file_relations = << >>
    /\ graph = NoGraph
    /\ candidates = NoCandidates
    /\ tree = <<>> /\ tree_size = 0 /\ added = <<>> /\ query_result = NoQuery
    /\ clusters = {} /\ next_cluster_id = 1 /\ cluster_members = {} /\ rc = RcIdle
    /\ rel_write = NoWrite
    /\ AuxIdle

historyOtherVars == <<storeVars, graph, candidates, bkVars, clusterVars, rel_write, engine,
                      bk_cache, index_run, explicit_deletes, last_modified, vector_status,
                      dist_call, uf>>

Execute ==
    \E command \in HistoryCommands, raises \in BOOLEAN :
        /\ history' = execute(history, command, raises)
        /\ UNCHANGED historyOtherVars

Undo ==
    \E raises \in BOOLEAN :
        /\ history' = undo(history, raises)
        /\ UNCHANGED historyOtherVars

Redo ==
    \E raises \in BOOLEAN :
        /\ history' = redo(history, raises)
        /\ UNCHANGED historyOtherVars

HistoryNext == Execute \/ Undo \/ Redo

SpecHistory == HistoryInit /\ [][HistoryNext]_vars

(***************************************************************************)
(* The writers of the files table                                          *)
(***************************************************************************)

HShort == <<10, 11, 12, 1, 2, 3>>    \* abc123, as the repository tests write it
ChunkPhashes == {NoPhash, HShort, H1, HFF}
ChunkRows == [path : IndexPaths, phash : ChunkPhashes, mtime : Versions]
ChunkBatches == {<<a>> : a \in ChunkRows} \cup {<<a, b>> : a \in ChunkRows, b \in ChunkRows}

\* file_repository.py upsert_file: INSERT ... ON CONFLICT(path) DO UPDATE over
\* path, phash, file_size, width, height and last_modified; the statement
\* names none of phash_c1..phash_c4, so an inserted row has them NULL and an
\* updated row keeps the ones it had.
repo_upsert_file(table, nid, path, phash) ==
    IF \E f \in table : f.path = path
    THEN {IF f.path = path THEN [f EXCEPT !.phash = phash] ELSE f : f \in table}
    ELSE table \cup {[id |-> nid, path |-> path, phash |-> phash,
                      chunks |-> <<NULL, NULL, NULL, NULL>>]}

ChunkInit == IndexInit

chunkOtherVars == <<file_relations, graph, candidates, bkVars, clusterVars, rel_write, engine,
                    bk_cache, index_run, explicit_deletes, vector_status, miscVars>>

\* DatabaseManager.upsert_file
DbUpsertFile ==
    \E row \in ChunkRows :
        /\ files' = DbUpsertRow(files, next_id, row.path, row.phash)
        /\ next_id' = IF row.path \in FilePaths THEN next_id ELSE next_id + 1
        /\ last_modified' = upsert_mtimes(last_modified, <<row>>)
        /\ UNCHANGED chunkOtherVars

\* DatabaseManager.upsert_files_batch
DbUpsertFilesBatch ==
    \E file_data \in ChunkBatches :
        \E r \in {upsert_files_batch(files, next_id, file_data)} :
            /\ files' = r.files
            /\ next_id' = r.next_id
            /\ last_modified' = upsert_mtimes(last_modified, file_data)
            /\ UNCHANGED chunkOtherVars

\* FileRepository.upsert_file
RepoUpsertFile ==
    \E row \in ChunkRows :
        /\ files' = repo_upsert_file(files, next_id, row.path, row.phash)
        /\ next_id' = IF row.path \in FilePaths THEN next_id ELSE next_id + 1
        /\ last_modified' = upsert_mtimes(last_modified, <<row>>)
        /\ UNCHANGED chunkOtherVars

ChunkNext == DbUpsertFile \/ DbUpsertFilesBatch \/ RepoUpsertFile

SpecChunks == ChunkInit /\ [][ChunkNext]_vars

\* The files table written through DatabaseManager alone.
SpecChunksDb == ChunkInit /\ [][DbUpsertFile \/ DbUpsertFilesBatch]_vars

(***************************************************************************)
(* Claims                                                                  *)
(***************************************************************************)

InSameComponent(p, q) ==
    \E i \in 1..Len(graph.components) :
        p \in graph.components[i] /\ q \in graph.components[i]

\* The persisted not_duplicate pairs of the last build whose two files were
\* among the files given, with the re-admit flag off.
NegativePairsOfBuild ==
    {k \in DOMAIN file_relations :
        /\ file_relations[k].relation_type = "not_duplicate"
        /\ ~graph.criteria["not_duplicate"]
        /\ \E f \in graph.files : f.id = k[1]
        /\ \E f \in graph.files : f.id = k[2]}

\* C1: two files with a persisted not_duplicate relation (re-admit flag off)
\* are never in the same component returned by
\* build_graph_and_find_components, whatever positive evidence exists.
C1_NegativePairNeverGrouped ==
    graph.done =>
        \A k \in NegativePairsOfBuild :
            ~InSameComponent(FileById(k[1]).path, FileById(k[2]).path)

HasFingerprint(f) == f.phash # NoPhash /\ Len(f.phash) = 16

CandidatePairs == {<<row[1], row[2]>> : row \in candidates.rows}

\* The pairs of stored files within Hamming distance t are all candidates.
CompleteFor(t) ==
    \A f1 \in files, f2 \in files :
        (/\ f1.id < f2.id /\ HasFingerprint(f1) /\ HasFingerprint(f2)
         /\ hamming(f1.phash, f2.phash) <= t)
            => <<f1.id, f2.id>> \in CandidatePairs

BruteForce(hash_val, threshold) ==
    {<<added[i][1], hamming(added[i][2], hash_val)>> : i \in
        {j \in 1..Len(added) : hamming(added[j][2], hash_val) <= threshold}}

\* C3: after any sequence of BKTree.add calls, query(h, T) returns exactly the
\* added items whose Hamming distance to h is <= T, each once and paired with
\* its true distance.
C3_QueryEqualsBruteForce ==
    query_result.done =>
        LET res == query_result.results
            expected == BruteForce(query_result.hash_val, query_result.threshold)
        IN /\ {res[i] : i \in 1..Len(res)} = expected
           /\ Len(res) = Cardinality(expected)

\* A query on a tree holding a repeated fingerprint that reports some items
\* and leaves others out.
C3_Witness ==
    /\ query_result.done
    /\ query_result.threshold > 0
    /\ Len(query_result.results) >= 2
    /\ Len(query_result.results) < Len(added)
    /\ \E i \in 1..Len(added), j \in 1..Len(added) : i < j /\ added[i][2] = added[j][2]

\* The paths the fresh components of the pass cover.
Covered == UNION {rc.fresh_components[i] : i \in 1..Len(rc.fresh_components)}

\* The persisted clusters a component touches, by the cluster_members rows at
\* the start of the pass.
Touched(comp) == {m[1] : m \in {n \in rc.members0 : n[2] \in comp}}

\* The members persisted under cluster c at the start of the pass.
PriorMembers(c) == {m[2] : m \in {n \in rc.members0 : n[1] = c}}

\* C4: every path that is a persisted member of cluster c, is covered by no
\* fresh component and is a key of global_file_map is in c's reconciled file
\* set, and in c's record whenever c is emitted.
C4_UncoveredMembersStay ==
    rc.pc = "done" =>
        \A m \in rc.members0 :
            (m[2] \notin Covered /\ m[2] \in rc.global_file_map) =>
                /\ m[2] \in rc.final_clusters[m[1]]
                /\ \A i \in 1..Len(rc.result) :
                      rc.result[i].id = m[1] => m[2] \in rc.result[i].files

\* C5: a fresh component touching the set S of persisted cluster ids has all
\* its members merged into cluster min(S) and into no other cluster of S.
C5_MergedIntoLowestTouched ==
    rc.pc = "done" =>
        \A i \in 1..Len(rc.fresh_components) :
            LET comp == rc.fresh_components[i]
                S == Touched(comp)
            IN S # {} =>
                  /\ comp \subseteq rc.final_clusters[Min(S)]
                  /\ \A c \in S \ {Min(S)} : comp \cap rc.final_clusters[c] = {}

\* The components whose lowest touched cluster is c.
MergedInto(c) ==
    {rc.fresh_components[i] : i \in
        {j \in 1..Len(rc.fresh_components) :
            Touched(rc.fresh_components[j]) # {}
            /\ Min(Touched(rc.fresh_components[j])) = c}}

MapTouched(comp) == {rc.db_members[q] : q \in comp \cap DOMAIN rc.db_members}
MapPrimary(comp) == CHOOSE c \in MapTouched(comp) : \A d \in MapTouched(comp) : c <= d
MapMergedInto(c) ==
    {rc.fresh_components[i] : i \in
        {j \in 1..Len(rc.fresh_components) :
            MapTouched(rc.fresh_components[j]) # {}
            /\ MapPrimary(rc.fresh_components[j]) = c}}

C7_ComponentPersistedUnderPrimary ==
    rc.pc = "done" =>
        \A i \in 1..Len(rc.fresh_components) :
            LET comp == rc.fresh_components[i]
            IN Touched(comp) # {} =>
                  \A q \in comp : <<Min(Touched(comp)), q>> \in cluster_members

\* C8: every record returned by reconcile, for a persisted or a transient
\* cluster, has at least two files that are keys of global_file_map.
C8_RecordsHaveTwoFiles ==
    rc.pc = "done" =>
        \A i \in 1..Len(rc.result) :
            Cardinality(rc.result[i].files \cap rc.global_file_map) >= 2

\* The folder names of a path, lower-cased, without empty and "." parts.
PathParts(s) ==
    SelectSeq(SplitSlash(lower(Chars(s)), <<>>, <<>>),
              LAMBDA c : c # <<>> /\ c # <<".">>)

\* path is root or lies below it: the folder names of root begin those of path.
UnderRoot(path, root) ==
    /\ Len(PathParts(root)) <= Len(PathParts(path))
    /\ SubSeq(PathParts(path), 1, Len(PathParts(root))) = PathParts(root)

\* C9: whenever a list of allowed roots is passed to reconcile, the empty list
\* included, every returned cluster has all its member paths equal to or under
\* some allowed root.
C9_ResultWithinAllowedRoots ==
    (rc.pc = "done" /\ rc.allowed_roots.given) =>
        \A i \in 1..Len(rc.result) :
            \A f \in rc.result[i].files :
                \E r \in 1..Len(rc.allowed_roots.roots) :
                    UnderRoot(f, rc.allowed_roots.roots[r])

\* C10: an automated write (add_relations_batch with overwrite=False) leaves
\* the kind and the distance of every relation record that existed before it
\* unchanged, whatever user annotations came before or during the call.
C10_AutomatedWriteKeepsExisting ==
    rel_write.pc = "done" =>
        \A k \in DOMAIN rel_write.before :
            /\ k \in DOMAIN file_relations
            /\ file_relations[k] = rel_write.before[k]

\* An automated batch that was written without error and held a row for a pair
\* the user had classified.
C10_Witness ==
    /\ rel_write.pc = "done"
    /\ rel_write.stats.added >= 1
    /\ \E n \in 1..Len(rel_write.valid_data) :
          LET k == rel_write.valid_data[n].key
          IN /\ k \in DOMAIN rel_write.before
             /\ rel_write.before[k].relation_type \in RelReasons
             /\ file_relations[k].relation_type = rel_write.before[k].relation_type

\* C11: in every engine path, when include_ignored is false, no pair whose
\* stored relation has a kind other than new_match is used to join its two
\* files in the grouping returned.
C11_IgnoredPairNotJoined ==
    (engine.done /\ ~engine.include_ignored) =>
        \A k \in engine.joined :
            ~(k \in DOMAIN engine.relations
              /\ engine.relations[k].relation_type # "new_match")

\* C12: the BK-tree used in a find_duplicates run holds exactly the distinct
\* fingerprints of the corpus of that run.
C12_TreeHoldsCorpusFingerprints ==
    (engine.done /\ engine.path = "cpu") =>
        engine.tree_hashes = engine.corpus_hashes


C14_PassAllOrNothing ==
    rc.pc = "loop" =>
        \/ cluster_members = rc.members0
        \/ reconcile_members(rc.members0, rc.fresh_components, rc.db_members,
                             DOMAIN rc.final_clusters) \subseteq cluster_members

\* C15: after any sequence of add_relations_batch, add_ignored_pair_id and
\* remove_relation calls, given ids in either order, every stored relation has
\* id1 < id2 and no unordered pair has more than one record.
C15_RelationsSortedAndUnique ==
    /\ \A k \in DOMAIN file_relations : k[1] < k[2]
    /\ \A k1 \in DOMAIN file_relations, k2 \in DOMAIN file_relations :
          {k1[1], k1[2]} = {k2[1], k2[2]} => k1 = k2

\* A batch that named the pair as (2, 1) has stored it as (1, 2).
C15_Witness ==
    /\ rel_write.pc = "done"
    /\ <<1, 2>> \in DOMAIN file_relations
    /\ <<1, 2>> \notin DOMAIN rel_write.before
    /\ \E n \in 1..Len(rel_write.valid_data) : rel_write.valid_data[n].key = <<1, 2>>

AbsentRows ==
    {n \in 1..Len(rel_write.data) :
        rel_write.data[n].key[1] \notin FileIds \/ rel_write.data[n].key[2] \notin FileIds}

\* C17: when add_relations_batch returns, no relation naming an absent file id
\* was inserted, 'skipped' is the number of the batch's relations that name
\* one, and every relation of the batch between two stored files is stored.
C17_BatchSkipsAbsentAndWritesValid ==
    rel_write.pc = "done" =>
        /\ \A k \in DOMAIN file_relations \ DOMAIN rel_write.before :
              k[1] \in FileIds /\ k[2] \in FileIds
        /\ rel_write.stats.skipped = Cardinality(AbsentRows)
        /\ \A n \in 1..Len(rel_write.data) :
              (n \notin AbsentRows /\ rel_write.data[n].key[1] # rel_write.data[n].key[2])
                  => rel_write.data[n].key \in DOMAIN file_relations

\* The final adjacency of the last build.
BuildEdges == FinalEdges(graph.files, file_relations, graph.criteria)

\* The nodes connected to a node of S over the edges.
RECURSIVE ConnectedTo(_, _)
ConnectedTo(S, edges) ==
    LET T == S \cup UNION {e \in edges : e \cap S # {}}
    IN IF T = S THEN S ELSE ConnectedTo(T, edges)

ReturnedComponents == {graph.components[i] : i \in 1..Len(graph.components)}

TwoTwins ==
    /\ graph.done
    /\ Cardinality(graph.files) = 2
    /\ \A f \in graph.files, g \in graph.files : f.phash = g.phash /\ f.phash # NoPhash
    /\ graph.criteria["exact_hash"]

TwinsKey ==
    LET ids == {f.id : f \in graph.files}
    IN <<Min(ids), CHOOSE i \in ids : i # Min(ids)>>

TwinsMarkedNotDuplicate ==
    /\ TwinsKey \in DOMAIN file_relations
    /\ file_relations[TwinsKey].relation_type = "not_duplicate"

\* C19 as claimed: the two files form one component of size 2 while no
\* relation is stored, and no component once their not_duplicate relation
\* is stored, whatever the rest of the criteria.
C19_TwinsThenNone ==
    TwoTwins =>
        /\ file_relations = << >> =>
              graph.components = <<{f.path : f \in graph.files}>>
        /\ TwinsMarkedNotDuplicate => graph.components = <<>>

\* C19: as above, the second build with the not_duplicate re-admit flag of
\* the criteria off.
C19_TwinsThenNoneUnlessReadmitted ==
    TwoTwins =>
        /\ file_relations = << >> =>
              graph.components = <<{f.path : f \in graph.files}>>
        /\ (TwinsMarkedNotDuplicate /\ ~graph.criteria["not_duplicate"]) =>
              graph.components = <<>>

\* The second build: the pair is stored as not_duplicate and comes back in
\* no component.
C19_Witness ==
    /\ TwoTwins
    /\ TwinsMarkedNotDuplicate
    /\ ~graph.criteria["not_duplicate"]
    /\ graph.components = <<>>

\* The fingerprint that the files table holds for a path (NoPhash: none).
StoredPhash(path) ==
    IF \E f \in files : f.path = path THEN FileByPath(path).phash ELSE NoPhash

\* C20: when index_files has returned, every task of the run whose file
\* loads and decodes has its fingerprint in the files table, whatever other
\* files of the run failed to load and wherever they sat in the task list.
C20_LoadFailureIsolated ==
    index_run.pc = "done" =>
        \A k \in 1..Len(index_run.tasks) :
            index_run.disk[index_run.tasks[k]].state = "ok" =>
                StoredPhash(index_run.tasks[k]) = index_run.disk[index_run.tasks[k]].phash

\* C21: a run of index_files writes no file that, when the run began, had a
\* stored fingerprint and a stored modification time equal to the one on disk;
\* this covers a second run over unchanged paths and a run after an
\* interrupted one.
C21_UpToDateFilesNotRewritten ==
    index_run.written \cap index_run.up_to_date = {}

\* A run has returned that began with an up-to-date file next to files it had
\* to hash, and it stored one of those.
C21_Witness ==
    /\ index_run.pc = "done"
    /\ index_run.up_to_date # {}
    /\ index_run.written # {}

\* No relation, member row or status row names a file that files lacks.
NoOrphans ==
    /\ \A k \in DOMAIN file_relations : k[1] \in FileIds /\ k[2] \in FileIds
    /\ \A m \in cluster_members : m[2] \in FilePaths
    /\ \A v \in vector_status : v[1] \in FilePaths

\* C22: a step of cleanup_orphans ends in a state where no relation,
\* cluster-member row or vector-index status row references a file absent from
\* files, and where cleanup_orphans run again would remove nothing.
C22_SweepCleansAndIsIdempotent ==
    [][CleanupOrphans =>
        /\ NoOrphans'
        /\ cleanup_orphans(files', file_relations', clusters', cluster_members',
                           vector_status')
             = [rels |-> file_relations', cluster_members |-> cluster_members',
                clusters |-> clusters', vector_status |-> vector_status']]_vars

\* The sweep has run: a cluster was dropped with its orphan member rows, and
\* nothing dangles.
C22_Witness ==
    /\ NoOrphans
    /\ \E c \in 1..(next_cluster_id - 1) : c \notin clusters
    /\ \E i \in 1..(next_id - 1) : i \notin FileIds
    /\ vector_status # {}

\* Bit b (0 the lowest) of the 64-bit value of a fingerprint.
HashBit(h, b) == Bit(h[16 - (b \div 4)], b % 4)
DifferingBits(h1, h2) == Cardinality({b \in 0..63 : HashBit(h1, b) # HashBit(h2, b)})

\* C23: compute_distances returns one integer per pair, in input order, equal
\* to the number of bits in which the two fingerprints differ, within 0..64.
C23_DistancesArePopcountOfXor ==
    dist_call.done =>
        /\ Len(dist_call.dists) = Len(dist_call.hashes1)
        /\ \A n \in 1..Len(dist_call.hashes1) :
               /\ dist_call.dists[n] =
                      DifferingBits(dist_call.hashes1[n], dist_call.hashes2[n])
               /\ dist_call.dists[n] \in 0..64

\* A call on two pairs has returned 64 for the first and 1 for the second.
C23_Witness ==
    /\ dist_call.done
    /\ dist_call.dists = <<64, 1>>

\* The groups that a parent map gives: the items with the same root.
GroupsOf(parent) ==
    {{y \in DOMAIN parent : find(parent, y).root = find(parent, x).root} :
        x \in DOMAIN parent}

\* The items joined to x by a chain of the unions made.
ChainedTo(x) == ConnectedTo({x}, uf.unions)

\* C24: after any sequence of unions and finds, a union made before changes
\* no group when applied again; find(x) gives a root r that is its own parent
\* and its own find; and two items are in one group exactly when a chain of
\* unions joins them.
C24_UnionFindPartition ==
    /\ \A pr \in uf.unions : \A a \in pr, b \in pr :
           a # b => GroupsOf(union(uf.parent, a, b)) = GroupsOf(uf.parent)
    /\ \A x \in DOMAIN uf.parent :
           LET f == find(uf.parent, x)
           IN  /\ f.parent[f.root] = f.root
               /\ find(f.parent, f.root).root = f.root
    /\ \A x \in DOMAIN uf.parent, y \in DOMAIN uf.parent :
           (find(uf.parent, x).root = find(uf.parent, y).root) <=> (y \in ChainedTo(x))

\* Two unions have chained three items, through a node that is not a root.
C24_Witness ==
    /\ Cardinality(uf.unions) = 2
    /\ \E g \in GroupsOf(uf.parent) : Cardinality(g) = 3
    /\ \E x \in DOMAIN uf.parent : uf.parent[uf.parent[x]] # uf.parent[x]

\* The path is a root or lies below one, at a separator.
AtOrUnderRoots(path, root_paths) ==
    \E i \in 1..Len(root_paths) :
        LET r == normpath(Chars(root_paths[i]))
            q == normpath(Chars(path))
        IN  q = r \/ (Len(q) > Len(r) /\ SubSeq(q, 1, Len(r)) = r /\ q[Len(r) + 1] = "/")

\* C25: when find_duplicates is given root_paths, every file of every group
\* it returns is a root or lies under one at a path-separator boundary, on the
\* GPU path, the CPU path and the embedding path.
C25_GroupsWithinRoots ==
    (engine.done /\ ~engine.error /\ engine.root_paths # <<>>) =>
        \A g \in engine.groups : \A i \in g :
            \A f \in files : f.id = i => AtOrUnderRoots(f.path, engine.root_paths)

\* C26: a call of CommandHistory.execute whose command raises returns False
\* and leaves the undo stack and the redo stack as they were, whatever calls
\* of execute, undo and redo came before.
C26_FailedExecuteNotRecorded ==
    [][\A command \in HistoryCommands :
          history' = execute(history, command, TRUE) =>
              /\ history'.last.result = FALSE
              /\ history'.undo_stack = history.undo_stack
              /\ history'.redo_stack = history.redo_stack]_vars

\* An execute has failed with commands on both stacks.
C26_Witness ==
    /\ history.last = [op |-> "execute", raised |-> TRUE, result |-> FALSE]
    /\ history.undo_stack # <<>>
    /\ history.redo_stack # <<>>

\* C27: whatever was written through DatabaseManager.upsert_file,
\* DatabaseManager.upsert_files_batch and FileRepository.upsert_file, the
\* four chunk values of every row are the four 16-bit slices of the row's
\* fingerprint, and all NULL when the row has no fingerprint of 16 digits.
C27_ChunksMatchFingerprint ==
    \A f \in files : f.chunks = extract_phash_chunks(f.phash)

\* C28: for pairwise disjoint fresh components, no file path is in the files
\* of more than one record that reconcile returns, and the ids of the
\* returned records are all distinct.
C28_RecordsDisjointIdsDistinct ==
    rc.pc = "done" =>
        \A i \in 1..Len(rc.result), j \in 1..Len(rc.result) :
            i # j =>
                /\ rc.result[i].files \cap rc.result[j].files = {}
                /\ rc.result[i].id # rc.result[j].id

\* A pass that returned a persisted cluster grown by a component that moved
\* a member of another persisted cluster into it, beside a second record.
C28_Witness ==
    /\ rc.pc = "done"
    /\ Len(rc.result) >= 2
    /\ \E i \in 1..Len(rc.result) :
          \E q \in rc.result[i].files \cap DOMAIN rc.db_members :
              /\ rc.result[i].id > 0
              /\ rc.db_members[q] # rc.result[i].id
              /\ q \in Covered

\* The records of a returned list, as a set.
Records(result) == {result[i] : i \in 1..Len(result)}

\* C29: reconcile run twice in a row with the same fresh components,
\* global_file_map and allowed_roots returns the same cluster records (ids
\* and file sets) both times, and the second run persists no further
\* cluster_members row.
C29_ReconcileIdempotent ==
    rc.other.kind = "again" =>
        /\ Records(rc.other.result) = Records(rc.result)
        /\ rc.other.cluster_members = rc.other.members0

\* Two passes of which the first persisted a new member and returned a
\* persisted and a new cluster.
C29_Witness ==
    /\ rc.other.kind = "again"
    /\ rc.other.members0 # rc.members0
    /\ \E i \in 1..Len(rc.result), j \in 1..Len(rc.result) :
          rc.result[i].id > 0 /\ rc.result[j].id < 0

\* C30: for the same persisted clusters and members, the same fresh
\* components, a file map of all stored files and allowed_roots the stored
\* scanned paths (possibly none), Deduper.process_clusters and
\* ClusterReconciler.reconcile return the same set of cluster records and
\* persist the same member rows.
C30_DeduperEquivalentToReconciler ==
    rc.other.kind = "deduper" =>
        /\ Records(rc.other.result) = Records(rc.result)
        /\ rc.other.cluster_members = cluster_members

\* C30 with at least one scanned path.
C30_EquivalentWithScannedPaths ==
    (rc.other.kind = "deduper" /\ rc.allowed_roots.roots # <<>>) =>
        /\ Records(rc.other.result) = Records(rc.result)
        /\ rc.other.cluster_members = cluster_members

====
